---------------------------- MODULE Spec2Model ----------------------------
(***************************************************************************)
(* A model of the csvx library (src/src/lib.rs, src/src/regexes.rs):       *)
(* filename parsing, type-expression parsing, schema loading and data-file *)
(* validation.                                                             *)
(*                                                                         *)
(* Text is modelled as a sequence of characters, each character a string   *)
(* naming one code point ("a", "_", "U+0663").  Regular expressions are    *)
(* modelled by matchers over such sequences that follow the pattern text   *)
(* of regexes.rs.                                                          *)
(***************************************************************************)
EXTENDS Integers, Sequences, FiniteSets, TLC

VARIABLES
    filename,   \* argument of parse_filename
    metadata,   \* its result: Pending before the call
    s,          \* argument of ColumnType::try_from
    ty,         \* its result: Pending before the call
    src,        \* argument of CsvxSchema::from_string: the records of the text
    lenient,    \* csv crate: are surplus fields ignored when decoding a 4-tuple
    loaded,     \* result of from_string, Ok(the schema's columns) or Err: Pending before the call
    file,       \* the data file validate_file reads
    outcome,    \* result of validate_file: Pending before the call
    trace,      \* what validate_file touched: header fields compared, rows read, cells validated
    cs,         \* argument of ColumnConstraints::try_from
    ccs,        \* its result: Pending before the call
    column,     \* the column validate_value is called on
    raw,        \* argument of validate_value
    value,      \* its result: Pending before the call
    log,        \* the calls made on a loaded schema so far, each with its result
    schema_path,  \* check command: the schema path argument
    input_files,  \* check command: the input files, in the order given
    pc,         \* check command: where cmd_check and main are
    checked,    \* check command: result of validate_file for each input file validated so far
    exit        \* check command: how the process ended, Pending while it runs

vars == <<filename, metadata, s, ty, src, lenient, loaded, file, outcome, trace,
         cs, ccs, column, raw, value, log, schema_path, input_files, pc, checked, exit>>

sessionVars == <<log>>
checkVars == <<schema_path, input_files, pc, checked, exit>>

Pending == [tag |-> "Pending"]

(***************************************************************************)
(* Characters                                                              *)
(***************************************************************************)
Lower == {"a","b","c","d","e","f","g","h","i","j","k","l","m",
          "n","o","p","q","r","s","t","u","v","w","x","y","z"}
Upper == {"A","B","C","D","E","F","G","H","I","J","K","L","M",
          "N","O","P","Q","R","S","T","U","V","W","X","Y","Z"}
DigitSeq == <<"0","1","2","3","4","5","6","7","8","9">>
AsciiDigit == {DigitSeq[i] : i \in 1..10}
\* A decimal digit outside ASCII (ARABIC-INDIC DIGIT THREE): the regex crate's
\* \d is Unicode-aware and matches it; str::parse for integers does not.
NonAsciiDigit == {"U+0663"}
\* \d of the regex crate
UnicodeDigit == AsciiDigit \cup NonAsciiDigit
Newline == "\n"
\* the characters of the model's texts
Chars == Lower \cup Upper \cup UnicodeDigit
         \cup {"-", "_", ".", ",", "(", ")", ":", " ", "+", Newline}

\* every character of t lies in set
All(t, set) == \A i \in 1..Len(t) : t[i] \in set

\* the decimal value of an ASCII digit
DigitVal(c) == CHOOSE k \in 0..9 : DigitSeq[k + 1] = c

RECURSIVE Num(_)
\* the number a sequence of ASCII digits denotes
Num(t) == IF t = <<>> THEN 0
          ELSE 10 * Num(SubSeq(t, 1, Len(t) - 1)) + DigitVal(t[Len(t)])

\* n as two decimal digits, n as four decimal digits
Pad2(n) == <<DigitSeq[((n \div 10) % 10) + 1], DigitSeq[(n % 10) + 1]>>
Pad4(n) == Pad2(n \div 100) \o Pad2(n % 100)

\* positions of character c in t
Positions(t, c) == {i \in 1..Len(t) : t[i] = c}
Min(S) == CHOOSE x \in S : \A y \in S : x <= y
Max(S) == CHOOSE x \in S : \A y \in S : x >= y

(***************************************************************************)
(* chrono::NaiveDate::from_ymd_opt, as called with a four-digit year       *)
(***************************************************************************)
IsLeapYear(y) == y % 4 = 0 /\ (y % 100 # 0 \/ y % 400 = 0)

DaysInMonth(y, m) ==
    IF m = 2 THEN (IF IsLeapYear(y) THEN 29 ELSE 28)
    ELSE IF m \in {4, 6, 9, 11} THEN 30 ELSE 31

from_ymd_opt_wide(y, m, d) == m \in 1..12 /\ d \in 1..31

\* TRUE iff from_ymd_opt(y, m, d) is Some
from_ymd_opt(y, m, d) == m \in 1..12 /\ d >= 1 /\ d <= DaysInMonth(y, m)

(***************************************************************************)
(* cap: parse a captured group as a number (lib.rs 570-582).  str::parse   *)
(* accepts ASCII digits only; on anything else safe_unwrap panics.         *)
(***************************************************************************)
CapPanics(t) == ~All(t, AsciiDigit)
cap(t) == Num(t)

\* FN_RE (regexes.rs 47-52), written here with a blank before each ")":
\*   ^([a-z][a-z0-9-]* )_(\d{4} )(\d{2} )(\d{2} )_([a-z][a-z0-9-]* ).csv$
\* Neither identifier class holds "_", so group 1 ends at the first "_", the
\* eight digits and the second "_" follow, and the tail after group 5 is
\* exactly four characters: one matched by the pattern's "." and then c, s, v.
\* FnMatch takes the characters accepted at the dot position and the digit class.
IdentHyphen(t) ==
    /\ Len(t) >= 1
    /\ t[1] \in Lower
    /\ All(t, Lower \cup AsciiDigit \cup {"-"})

FnP1(f) == Min(Positions(f, "_"))

FnMatch(f, dot, digit) ==
    /\ Positions(f, "_") # {}
    /\ LET p == FnP1(f)
           n == Len(f)
       IN  /\ IdentHyphen(SubSeq(f, 1, p - 1))
           /\ n >= p + 14
           /\ All(SubSeq(f, p + 1, p + 8), digit)
           /\ f[p + 9] = "_"
           /\ IdentHyphen(SubSeq(f, p + 10, n - 4))
           /\ f[n - 3] \in dot
           /\ SubSeq(f, n - 2, n) = <<"c", "s", "v">>

\* "." of the regex crate: any character but a line feed
AnyChar(c) == c # Newline
DotChars == {c \in Chars : AnyChar(c)}

FN_RE_is_match(f) == FnMatch(f, DotChars, UnicodeDigit)

\* the capture groups of a matching filename
FnGroup(f, k) ==
    LET p == FnP1(f)
    IN  CASE k = 1 -> SubSeq(f, 1, p - 1)
          [] k = 2 -> SubSeq(f, p + 1, p + 4)
          [] k = 3 -> SubSeq(f, p + 5, p + 6)
          [] k = 4 -> SubSeq(f, p + 7, p + 8)
          [] k = 5 -> SubSeq(f, p + 10, Len(f) - 4)

None == [tag |-> "None"]
Panic == [tag |-> "Panic"]
SomeMetadata(t, y, m, d, sch) ==
    [tag |-> "Some", table_name |-> t, date |-> <<y, m, d>>, schema |-> sch]

parse_filename_swapped(f) ==
    IF ~FN_RE_is_match(f) THEN None
    ELSE IF \E k \in 2..4 : CapPanics(FnGroup(f, k)) THEN Panic
    ELSE LET year == cap(FnGroup(f, 2))
             month == cap(FnGroup(f, 3))
             day == cap(FnGroup(f, 4))
         IN  IF from_ymd_opt(year, month, day)
             THEN SomeMetadata(FnGroup(f, 5), year, month, day, FnGroup(f, 1))
             ELSE None

parse_filename_lax(f) ==
    IF ~FN_RE_is_match(f) THEN None
    ELSE IF \E k \in 2..4 : CapPanics(FnGroup(f, k)) THEN Panic
    ELSE LET year == cap(FnGroup(f, 2))
             month == cap(FnGroup(f, 3))
             day == cap(FnGroup(f, 4))
         IN  IF from_ymd_opt_wide(year, month, day)
             THEN SomeMetadata(FnGroup(f, 1), year, month, day, FnGroup(f, 5))
             ELSE None

\* parse_filename (lib.rs 584-604)
parse_filename(f) ==
    IF ~FN_RE_is_match(f) THEN None
    ELSE IF \E k \in 2..4 : CapPanics(FnGroup(f, k)) THEN Panic
    ELSE LET year == cap(FnGroup(f, 2))
             month == cap(FnGroup(f, 3))
             day == cap(FnGroup(f, 4))
         IN  IF from_ymd_opt(year, month, day)
             THEN SomeMetadata(FnGroup(f, 1), year, month, day, FnGroup(f, 5))
             ELSE None

(***************************************************************************)
(* Inputs of parse_filename                                                *)
(***************************************************************************)
MaxMonthIn == 13
MaxDayIn == 32
Years == {2017, 2016, 1900, 2000}

DateDigits(y, m, d) == Pad4(y) \o Pad2(m) \o Pad2(d)
MkName(t, dd, sc, e) == t \o <<"_">> \o dd \o <<"_">> \o sc \o e

DotCsv == <<".", "c", "s", "v">>
Tables == {<<"z","o","o","-","n","y","c">>, <<"a">>, <<"Z">>, <<"9","a">>, <<>>}
Schemas == {<<"a","n","i","m","a","l","s","-","2">>, <<"x">>, <<"b","_","c">>}
Exts == {DotCsv, <<"x","c","s","v">>, <<".","c","s","v","x">>, <<".","C","S","V">>,
         <<Newline,"c","s","v">>, <<"c","s","v">>, <<>>}
MutChars == {"a", "A", "0", "9", "-", "_", ".", ",", "U+0663", Newline}

\* t with position i replaced by c, with position i removed, with c put before position i
Replaced(t, i, c) == [t EXCEPT ![i] = c]
Removed(t, i) == SubSeq(t, 1, i - 1) \o SubSeq(t, i + 1, Len(t))
Inserted(t, i, c) == SubSeq(t, 1, i - 1) \o <<c>> \o SubSeq(t, i, Len(t))
Mutations(t) ==
    {Replaced(t, i, c) : i \in 1..Len(t), c \in MutChars}
    \cup {Removed(t, i) : i \in 1..Len(t)}
    \cup {Inserted(t, i, c) : i \in 1..(Len(t) + 1), c \in MutChars}

FilenameInputs ==
    {MkName(<<"a">>, DateDigits(y, m, d), <<"x">>, e) :
        y \in Years, m \in 0..MaxMonthIn, d \in 0..MaxDayIn,
        e \in {DotCsv, <<"x","c","s","v">>}}
    \cup {MkName(t, dd, sc, e) :
        t \in Tables, dd \in {DateDigits(2017, 4, 1), DateDigits(2017, 2, 30)},
        sc \in Schemas, e \in Exts}
    \cup UNION {Mutations(MkName(<<"a","b">>, dd, <<"x","y">>, DotCsv)) :
        dd \in {DateDigits(2016, 2, 29), DateDigits(2017, 2, 29)}}
    \cup {<<>>, <<"a","s","d","f">>, <<"t","e","s","t">> \o DotCsv}

IdleFilename == filename = <<>> /\ metadata = Pending
IdleType == s = <<>> /\ ty = Pending
IdleSchema == src = <<>> /\ lenient = FALSE /\ loaded = Pending
IdleFile == file = <<>> /\ outcome = Pending /\ trace = <<>>
IdleConstraints == cs = <<>> /\ ccs = Pending
IdleValue == column = <<>> /\ raw = <<>> /\ value = Pending
IdleSession == log = <<>>
IdleCheck ==
    schema_path = <<>> /\ input_files = <<>> /\ pc = "idle" /\ checked = <<>> /\ exit = Pending

InitFilename ==
    /\ filename \in FilenameInputs
    /\ metadata = Pending
    /\ IdleType /\ IdleSchema /\ IdleFile /\ IdleConstraints /\ IdleValue /\ IdleSession /\ IdleCheck

\* one call of parse_filename
ParseFilename ==
    /\ metadata = Pending
    /\ metadata' = parse_filename(filename)
    /\ UNCHANGED <<filename, s, ty, src, lenient, loaded, file, outcome, trace,
                 cs, ccs, column, raw, value,
                 sessionVars, checkVars>>

NextFilename == ParseFilename
SpecFilename == InitFilename /\ [][NextFilename]_vars

(***************************************************************************)
(* Claims about parse_filename                                             *)
(***************************************************************************)
\* The filename grammar as the specification writes it: the dot before csv
\* is a literal dot and the date is eight ASCII digits (CSVX filenames are
\* ASCII, err.rs 257-261).
FnGrammar(f) == FnMatch(f, {"."}, AsciiDigit)

\* The calendar, stated apart from the model of chrono.
MonthLengths == <<31, 28, 31, 30, 31, 30, 31, 31, 30, 31, 30, 31>>
RealCalendarDate(y, m, d) ==
    /\ m >= 1 /\ m <= 12 /\ d >= 1
    /\ \/ d <= MonthLengths[m]
       \/ m = 2 /\ d = 29 /\ (y % 400 = 0 \/ (y % 4 = 0 /\ y % 100 # 0))

FnYear(f) == Num(FnGroup(f, 2))
FnMonth(f) == Num(FnGroup(f, 3))
FnDay(f) == Num(FnGroup(f, 4))

\* C7: parse_filename returns None for every string that does not match the
\* authoritative filename grammar, in particular for every string that does
\* not end in the literal ".csv".
C7_NoneOutsideGrammar ==
    (metadata # Pending /\ ~FnGrammar(filename)) => metadata = None

\* C8: for every filename that matches the grammar and whose eight digits are
\* a real calendar date, parse_filename returns Some(metadata) with table_name
\* the first identifier, date the captured year, month and day, and schema the
\* last identifier.
C8_SomeWithCapturedFields ==
    (/\ metadata # Pending
     /\ FnGrammar(filename)
     /\ RealCalendarDate(FnYear(filename), FnMonth(filename), FnDay(filename)))
    => metadata = [tag |-> "Some",
                   table_name |-> FnGroup(filename, 1),
                   date |-> <<FnYear(filename), FnMonth(filename), FnDay(filename)>>,
                   schema |-> FnGroup(filename, 5)]

\* C8 witness: a filename with distinct table and schema names dated on a leap
\* day has been parsed to Some.
C8_Witness ==
    /\ metadata # Pending
    /\ metadata.tag = "Some"
    /\ metadata.date = <<2016, 2, 29>>
    /\ metadata.table_name # metadata.schema

\* C9: parse_filename returns None for every filename that matches the grammar
\* but whose digits are no valid calendar date (month outside 1..12, day 00,
\* or a day past the end of the month, leap years counted).
C9_NoneOnImpossibleDate ==
    (/\ metadata # Pending
     /\ FnGrammar(filename)
     /\ ~RealCalendarDate(FnYear(filename), FnMonth(filename), FnDay(filename)))
    => metadata = None

\* C9 witness: a grammatical filename dated 29 February 1900 (no leap year)
\* has been parsed, and one dated in month 13, and one on day 00.
C9_Witness ==
    /\ metadata = None
    /\ FnGrammar(filename)
    /\ FnYear(filename) = 1900 /\ FnMonth(filename) = 2 /\ FnDay(filename) = 29

(***************************************************************************)
(* ColumnType (lib.rs 38-48) and ColumnType::try_from (lib.rs 133-170)     *)
(***************************************************************************)
KwSTRING == <<"S","T","R","I","N","G">>
KwBOOL == <<"B","O","O","L">>
KwINTEGER == <<"I","N","T","E","G","E","R">>
KwDECIMAL == <<"D","E","C","I","M","A","L">>
KwDATE == <<"D","A","T","E">>
KwDATETIME == <<"D","A","T","E","T","I","M","E">>
KwTIME == <<"T","I","M","E">>
KwENUM == <<"E","N","U","M">>

TyString == [variant |-> "String"]
TyBool == [variant |-> "Bool"]
TyInteger == [variant |-> "Integer"]
TyDecimal == [variant |-> "Decimal"]
TyDate == [variant |-> "Date"]
TyDateTime == [variant |-> "DateTime"]
TyTime == [variant |-> "Time"]
TyEnum(variants) == [variant |-> "Enum", variants |-> variants]

Ok(v) == [tag |-> "Ok", val |-> v]
Err(e) == [tag |-> "Err", err |-> e]
BadEnum(t) == [kind |-> "BadEnum", arg |-> t]
UnknownType(t) == [kind |-> "UnknownType", arg |-> t]

\* str::starts_with
StartsWith(t, prefix) ==
    Len(t) >= Len(prefix) /\ SubSeq(t, 1, Len(prefix)) = prefix

RECURSIVE Split(_, _)
\* str::split(c): the pieces between the occurrences of c; one (empty) piece
\* for the empty string, an empty last piece after a trailing c
Split(t, c) ==
    IF Positions(t, c) = {} THEN <<t>>
    ELSE LET p == Min(Positions(t, c))
         IN  <<SubSeq(t, 1, p - 1)>> \o Split(SubSeq(t, p + 1, Len(t)), c)

RECURSIVE VariantListMatch(_)
\* (?:[A-Z][A-Z0-9]*,?)* against the whole of g (regexes.rs 13): a token is a
\* letter and then letters and ASCII digits up to position k, and an optional
\* comma follows it.  Two tokens with no comma between them read as one token
\* too, so only the k at the end of a run of letters and digits is tried.
VariantListMatch(g) ==
    \/ g = <<>>
    \/ /\ g[1] \in Upper
       /\ \E k \in 1..Len(g) :
            /\ All(SubSeq(g, 2, k), Upper \cup AsciiDigit)
            /\ (k = Len(g) \/ g[k + 1] \notin Upper \cup AsciiDigit)
            /\ \/ VariantListMatch(SubSeq(g, k + 1, Len(g)))
               \/ /\ k < Len(g)
                  /\ g[k + 1] = ","
                  /\ VariantListMatch(SubSeq(g, k + 2, Len(g)))

\* ENUM_EXPR_RE (regexes.rs 11-15), ^ENUM.*\( list \)$: the positions of "("
\* at which the pattern can match: ENUM before, then characters other than a
\* line feed, the list after it and ")" at the end
EnumOpenings(t) ==
    {q \in Positions(t, "(") :
        /\ StartsWith(t, KwENUM)
        /\ q >= 5
        /\ q < Len(t)
        /\ t[Len(t)] = ")"
        /\ \A i \in 5..(q - 1) : AnyChar(t[i])
        /\ VariantListMatch(SubSeq(t, q + 1, Len(t) - 1))}

ENUM_EXPR_RE_is_match(t) == EnumOpenings(t) # {}

ENUM_EXPR_RE_group1_first_paren(t) == SubSeq(t, Min(Positions(t, "(")) + 1, Len(t) - 1)

\* group 1 of ENUM_EXPR_RE.captures: ".*" is greedy, so the opening
\* parenthesis is the last one at which the pattern matches
ENUM_EXPR_RE_group1(t) == SubSeq(t, Max(EnumOpenings(t)) + 1, Len(t) - 1)

Keywords == <<KwSTRING, KwBOOL, KwINTEGER, KwDECIMAL, KwDATE, KwDATETIME, KwTIME>>
KeywordTypes == <<TyString, TyBool, TyInteger, TyDecimal, TyDate, TyDateTime, TyTime>>

TypeError_always_unknown(t) == Err(UnknownType(t))

\* the last match arm (lib.rs 161-166)
TypeError(t) ==
    IF StartsWith(t, KwENUM) THEN Err(BadEnum(t)) ELSE Err(UnknownType(t))

\* ColumnType::try_from (lib.rs 139-169)
ColumnType_try_from(t) ==
    IF \E i \in 1..7 : Keywords[i] = t
    THEN Ok(KeywordTypes[CHOOSE i \in 1..7 : Keywords[i] = t])
    ELSE IF ENUM_EXPR_RE_is_match(t)
    THEN Ok(TyEnum(Split(ENUM_EXPR_RE_group1(t), ",")))
    ELSE TypeError(t)

RECURSIVE Join(_, _)
\* [String]::join(sep)
Join(parts, sep) ==
    IF parts = <<>> THEN <<>>
    ELSE IF Len(parts) = 1 THEN parts[1]
    ELSE parts[1] \o sep \o Join(Tail(parts), sep)

Display_concat(t) ==
    IF t.variant = "Enum" THEN KwENUM \o <<"(">> \o Join(t.variants, <<>>) \o <<")">>
    ELSE Keywords[CHOOSE i \in 1..7 : KeywordTypes[i] = t]

\* impl fmt::Display for ColumnType (lib.rs 50-63)
Display(t) ==
    IF t.variant = "Enum" THEN KwENUM \o <<"(">> \o Join(t.variants, <<",">>) \o <<")">>
    ELSE Keywords[CHOOSE i \in 1..7 : KeywordTypes[i] = t]

(***************************************************************************)
(* Inputs of ColumnType::try_from                                          *)
(***************************************************************************)
MaxTailLen == 4
TailChars == {"(", ")", "A", "B", "1", ",", "a"}

RECURSIVE Strings(_, _)
\* the strings over chars of length at most n
Strings(chars, n) ==
    IF n = 0 THEN {<<>>}
    ELSE LET shorter == Strings(chars, n - 1)
         IN  shorter \cup {Append(t, c) : t \in shorter, c \in chars}

TypeInputs ==
    {Keywords[i] : i \in 1..7}
    \cup UNION {Mutations(Keywords[i]) : i \in {1, 5, 7}}
    \cup {<<"s","t","r","i","n","g">>, <<"d","a","t","e">>, <<"F","O","O">>,
          <<"e","n","u","m","(","A",")">>}
    \cup {KwENUM \o tail : tail \in Strings(TailChars, MaxTailLen)}
    \cup {KwENUM \o <<"(","A",",","B",",","C",")">>, KwENUM \o <<"(","A",",","B",")">>,
          KwENUM \o <<"(","B",",","A",")">>, KwENUM \o <<"(","A",",","A",")">>,
          KwENUM \o <<"(","A",",","B",",",")">>}
    \cup Mutations(KwENUM \o <<"(","A",",","B","1",")">>)
    \cup Mutations(KwENUM \o <<"X","(","(","B",",","A",")">>)

InitType ==
    /\ s \in TypeInputs
    /\ ty = Pending
    /\ IdleFilename /\ IdleSchema /\ IdleFile /\ IdleConstraints /\ IdleValue /\ IdleSession /\ IdleCheck

\* one call of ColumnType::try_from
TryFromType ==
    /\ ty = Pending
    /\ ty' = ColumnType_try_from(s)
    /\ UNCHANGED <<filename, metadata, s, src, lenient, loaded, file, outcome, trace,
                 cs, ccs, column, raw, value,
                 sessionVars, checkVars>>

NextType == TryFromType
SpecType == InitType /\ [][NextType]_vars

(***************************************************************************)
(* Claims about ColumnType::try_from                                       *)
(***************************************************************************)
\* The ENUM grammar, stated by position: ENUM first, ")" last, no line feed
\* before the last "(", and between that "(" and the final ")" only upper-case
\* letters, ASCII digits and commas, where the first character and every
\* character after a comma is a letter.
EnumGrammar(t) ==
    /\ StartsWith(t, KwENUM)
    /\ t[Len(t)] = ")"
    /\ \E q \in 5..(Len(t) - 1) :
         /\ t[q] = "("
         /\ \A i \in 5..(q - 1) : t[i] # Newline
         /\ \A i \in (q + 1)..(Len(t) - 1) :
              /\ t[i] \in Upper \cup AsciiDigit \cup {","}
              /\ (i = q + 1 \/ t[i - 1] = ",") => t[i] \in Upper

\* C10: ColumnType::try_from gives exactly one outcome per input: a keyword
\* (byte-exact) gives its variant, a string of the ENUM grammar gives Enum, a
\* string that starts with ENUM but fails the grammar gives BadEnum with the
\* input, and every other string gives UnknownType with the input.
C10_TypeClassification ==
    ty # Pending =>
        IF \E i \in 1..7 : Keywords[i] = s
        THEN \A i \in 1..7 : Keywords[i] = s => ty = Ok(KeywordTypes[i])
        ELSE IF EnumGrammar(s)
        THEN ty.tag = "Ok" /\ ty.val.variant = "Enum"
        ELSE IF StartsWith(s, KwENUM)
        THEN ty = Err(BadEnum(s))
        ELSE ty = Err(UnknownType(s))

\* C10 witness: a string that starts with ENUM, ends in a parenthesised list
\* and still fails the grammar (a lower-case variant) was classified BadEnum.
C10_Witness ==
    /\ ty = Err(BadEnum(s))
    /\ s = KwENUM \o <<"(", "a", ")">>

\* a variant token: a letter, then letters and digits, all upper case
IsVariantToken(v) == Len(v) >= 1 /\ v[1] \in Upper /\ All(v, Upper \cup AsciiDigit)

\* ColumnType::try_from produced an Enum type
GaveEnum == ty.tag = "Ok" /\ ty.val.variant = "Enum"

\* C11: every Enum type that ColumnType::try_from produces has a non-empty
\* variant list whose variants are all non-empty tokens of upper-case letters
\* and digits that start with a letter, also for ENUM() and for a list with
\* a trailing comma.
C11_EnumVariantsAreTokens ==
    GaveEnum =>
        /\ Len(ty.val.variants) >= 1
        /\ \A i \in 1..Len(ty.val.variants) : IsVariantToken(ty.val.variants[i])

\* What holds of C11 in the code: the list is never empty, and every variant
\* is a token or the empty string.
EnumVariantsAreTokensOrEmpty ==
    GaveEnum =>
        /\ Len(ty.val.variants) >= 1
        /\ \A i \in 1..Len(ty.val.variants) :
             ty.val.variants[i] = <<>> \/ IsVariantToken(ty.val.variants[i])

\* C19: rendering a type that ColumnType::try_from produced with Display and
\* parsing the rendered text with ColumnType::try_from again succeeds and
\* yields an equal type.
C19_DisplayRoundTrip ==
    ty.tag = "Ok" => ColumnType_try_from(Display(ty.val)) = ty

\* C19 witness: an Enum of two variants was produced from a text other than
\* its rendering.
C19_Witness ==
    /\ GaveEnum
    /\ Len(ty.val.variants) = 2
    /\ ty.val.variants[1] # ty.val.variants[2]
    /\ Display(ty.val) # s

\* the text between the last "(" and the last ")" of t
BetweenLastParentheses(t) ==
    SubSeq(t, Max(Positions(t, "(")) + 1, Max(Positions(t, ")")) - 1)
\* position of the i-th comma of g; 0 before the first, Len(g) + 1 after the last
CommaAt(g, i) ==
    IF i = 0 THEN 0
    ELSE IF i > Cardinality(Positions(g, ",")) THEN Len(g) + 1
    ELSE CHOOSE p \in Positions(g, ",") :
            Cardinality({q \in Positions(g, ",") : q <= p}) = i
\* g cut at its commas, in the order written
CutAtCommas(g) ==
    [i \in 1..(Cardinality(Positions(g, ",")) + 1) |->
        SubSeq(g, CommaAt(g, i - 1) + 1, CommaAt(g, i) - 1)]

\* C20: when ColumnType::try_from accepts an ENUM expression, the variant
\* list is the text between the last pair of parentheses split on commas, in
\* the order written and with duplicates kept.
C20_VariantsInOrderWritten ==
    GaveEnum => ty.val.variants = CutAtCommas(BetweenLastParentheses(s))

\* C20 witness: ENUM(A,B,C), ENUM(B,A) and ENUM(A,A) gave [A,B,C], [B,A] and
\* [A,A]; so did a text with a second opening parenthesis.
C20_Witness ==
    /\ GaveEnum
    /\ \/ /\ s = KwENUM \o <<"(","A",",","B",",","C",")">>
          /\ ty.val.variants = << <<"A">>, <<"B">>, <<"C">> >>
       \/ /\ s = KwENUM \o <<"(","B",",","A",")">>
          /\ ty.val.variants = << <<"B">>, <<"A">> >>
       \/ /\ s = KwENUM \o <<"(","A",",","A",")">>
          /\ ty.val.variants = << <<"A">>, <<"A">> >>

\* a second opening parenthesis before the list does not change the variants
C20_WitnessNested ==
    /\ GaveEnum
    /\ Cardinality(Positions(s, "(")) = 2
    /\ Len(ty.val.variants) = 2

(***************************************************************************)
(* ColumnConstraints (lib.rs 65-78) and ColumnConstraints::try_from        *)
(* (lib.rs 93-131)                                                         *)
(***************************************************************************)
NULLABLE == <<"N","U","L","L","A","B","L","E">>
UNIQUE == <<"U","N","I","Q","U","E">>

Constraints(n, u) == [nullable |-> n, unique |-> u]
MalformedConstraints(t) == [kind |-> "MalformedConstraints", arg |-> t]
UnknownConstraint(t) == [kind |-> "UnknownConstraint", arg |-> t]

RECURSIVE CONSTRAINT_RE_is_match(_)
\* CONSTRAINT_RE (regexes.rs 17-21), ^(:?[A-Z]+,?)*$ against the whole of t: a
\* piece is an optional colon, one or more upper-case letters up to position
\* k, and an optional comma.  Two pieces with neither comma nor colon between
\* them read as one piece too, so only the k at the end of a run of letters is
\* tried.
CONSTRAINT_RE_is_match(t) ==
    \/ t = <<>>
    \/ \E b \in {0, 1} :
         /\ b = 1 => (Len(t) >= 1 /\ t[1] = ":")
         /\ \E k \in (b + 1)..Len(t) :
              /\ All(SubSeq(t, b + 1, k), Upper)
              /\ (k = Len(t) \/ t[k + 1] \notin Upper)
              /\ \/ CONSTRAINT_RE_is_match(SubSeq(t, k + 1, Len(t)))
                 \/ /\ k < Len(t)
                    /\ t[k + 1] = ","
                    /\ CONSTRAINT_RE_is_match(SubSeq(t, k + 2, Len(t)))

FragmentsFlags_last_only(frags) ==
    Constraints(frags[Len(frags)] = NULLABLE, frags[Len(frags)] = UNIQUE)

\* the loop over the fragments (lib.rs 112-127): the flags set by the
\* fragments, and whether a fragment is neither NULLABLE nor UNIQUE
FragmentsKnown(frags) == \A i \in 1..Len(frags) : frags[i] \in {NULLABLE, UNIQUE}
FragmentsFlags(frags) ==
    Constraints(\E i \in 1..Len(frags) : frags[i] = NULLABLE,
                \E i \in 1..Len(frags) : frags[i] = UNIQUE)

\* ColumnConstraints::try_from (lib.rs 99-130)
ColumnConstraints_try_from(t) ==
    IF ~CONSTRAINT_RE_is_match(t) THEN Err(MalformedConstraints(t))
    ELSE IF t = <<>> THEN Ok(Constraints(FALSE, FALSE))
    ELSE IF FragmentsKnown(Split(t, ",")) THEN Ok(FragmentsFlags(Split(t, ",")))
    ELSE Err(UnknownConstraint(t))

(***************************************************************************)
(* Inputs of ColumnConstraints::try_from                                   *)
(***************************************************************************)
MaxTokens == 3
ConstraintChars == {":", "a", " ", "1", ",", "A", Newline}

RECURSIVE TokenLists(_)
\* the lists of at most n tokens NULLABLE and UNIQUE
TokenLists(n) ==
    IF n = 0 THEN {<<>>}
    ELSE LET shorter == TokenLists(n - 1)
         IN  shorter \cup {Append(l, tok) : l \in shorter, tok \in {NULLABLE, UNIQUE}}

ConstraintMutations(t) ==
    {Replaced(t, i, c) : i \in 1..Len(t), c \in ConstraintChars}
    \cup {Removed(t, i) : i \in 1..Len(t)}
    \cup {Inserted(t, i, c) : i \in 1..(Len(t) + 1), c \in ConstraintChars}

ConstraintInputs ==
    {Join(l, <<",">>) : l \in TokenLists(MaxTokens)}
    \cup {Join(l, <<",">>) \o <<",">> : l \in TokenLists(MaxTokens)}
    \cup ConstraintMutations(Join(<<NULLABLE, UNIQUE>>, <<",">>))
    \cup {<<"F","O","O">>, NULLABLE \o <<",","F","O","O">>, <<":">>, <<":","A",",",":","B">>,
          <<"n","u","l","l","a","b","l","e">>, NULLABLE \o <<",",",">> \o UNIQUE}

InitConstraints ==
    /\ cs \in ConstraintInputs
    /\ ccs = Pending
    /\ IdleFilename /\ IdleType /\ IdleSchema /\ IdleFile /\ IdleValue /\ IdleSession /\ IdleCheck

\* one call of ColumnConstraints::try_from
TryFromConstraints ==
    /\ ccs = Pending
    /\ ccs' = ColumnConstraints_try_from(cs)
    /\ UNCHANGED <<filename, metadata, s, ty, src, lenient, loaded, file, outcome, trace,
                   cs, column, raw, value,
                 sessionVars, checkVars>>

NextConstraints == TryFromConstraints
SpecConstraints == InitConstraints /\ [][NextConstraints]_vars

(***************************************************************************)
(* Claims about ColumnConstraints::try_from                                *)
(***************************************************************************)
\* t is one or more tokens NULLABLE and UNIQUE joined by commas
JoinedTokens(t) ==
    \A i \in 1..Len(CutAtCommas(t)) : CutAtCommas(t)[i] \in {NULLABLE, UNIQUE}
\* the flags that the tokens of t ask for
FlagsOf(t) ==
    Constraints(\E i \in 1..Len(CutAtCommas(t)) : CutAtCommas(t)[i] = NULLABLE,
                \E i \in 1..Len(CutAtCommas(t)) : CutAtCommas(t)[i] = UNIQUE)
\* cs without its last character
Front(t) == SubSeq(t, 1, Len(t) - 1)

\* C12: for an input of recognised tokens followed by one trailing comma,
\* ColumnConstraints::try_from succeeds with the flags of the input without
\* that comma.
C12_TrailingCommaTolerated ==
    (ccs # Pending /\ Len(cs) >= 2 /\ cs[Len(cs)] = "," /\ JoinedTokens(Front(cs)))
        => ccs = Ok(FlagsOf(Front(cs)))

\* What holds of C12 in the code: such an input is an UnknownConstraint.
TrailingCommaUnknown ==
    (ccs # Pending /\ Len(cs) >= 2 /\ cs[Len(cs)] = "," /\ JoinedTokens(Front(cs)))
        => ccs = Err(UnknownConstraint(cs))

\* the grammar ^([A-Z]+,?)*$ by position: upper-case letters and commas only,
\* every comma directly after a letter
ConstraintGrammar(t) ==
    \A i \in 1..Len(t) :
        \/ t[i] \in Upper
        \/ t[i] = "," /\ i > 1 /\ t[i - 1] \in Upper

\* C13: ColumnConstraints::try_from returns MalformedConstraints with the
\* input for every string outside the grammar ^([A-Z]+,?)*$, and returns
\* UnknownConstraint only for strings of that grammar that hold a token
\* outside NULLABLE and UNIQUE.
C13_MalformedOutsideGrammar ==
    ccs # Pending =>
        /\ ~ConstraintGrammar(cs) => ccs = Err(MalformedConstraints(cs))
        /\ (ccs.tag = "Err" /\ ccs.err.kind = "UnknownConstraint")
              => (ConstraintGrammar(cs) /\ ~JoinedTokens(cs))

\* What holds of C13 in the code: the same for inputs without a colon.
MalformedOutsideGrammarWithoutColon ==
    (ccs # Pending /\ Positions(cs, ":") = {}) =>
        /\ ~ConstraintGrammar(cs) => ccs = Err(MalformedConstraints(cs))
        /\ (ccs.tag = "Err" /\ ccs.err.kind = "UnknownConstraint")
              => (ConstraintGrammar(cs) /\ ~JoinedTokens(cs))

\* C14: for a comma-joined sequence of tokens NULLABLE and UNIQUE without a
\* trailing comma, ColumnConstraints::try_from succeeds with nullable true
\* exactly when NULLABLE occurs and unique true exactly when UNIQUE occurs,
\* whatever the order and the repetitions; the empty string gives both false.
C14_FlagsFromTokens ==
    ccs # Pending =>
        /\ cs = <<>> => ccs = Ok(Constraints(FALSE, FALSE))
        /\ (cs # <<>> /\ JoinedTokens(cs)) => ccs = Ok(FlagsOf(cs))

\* C14 witness: UNIQUE,NULLABLE,UNIQUE gave both flags.
C14_Witness ==
    /\ cs = Join(<<UNIQUE, NULLABLE, UNIQUE>>, <<",">>)
    /\ ccs = Ok(Constraints(TRUE, TRUE))

(***************************************************************************)
(* CsvxSchema::from_string (lib.rs 371-456)                                *)
(***************************************************************************)
\* IDENT_UNDERSCORE_RE (regexes.rs 5-9): ^[a-z][a-z0-9_]*$
IDENT_UNDERSCORE_RE_is_match(t) ==
    /\ Len(t) >= 1
    /\ t[1] \in Lower
    /\ All(t, Lower \cup AsciiDigit \cup {"_"})

\* Location (err.rs 16-34); the file name is the caller's and is left out
LocFile == [loc |-> "File"]
LocFileLine(line) == [loc |-> "FileLine", line |-> line]
LocFileLineField(line, field) == [loc |-> "FileLineField", line |-> line, field |-> field]
\* ErrorAtLocation (err.rs 58-61)
At(e, location) == [error |-> e, location |-> location]

MissingHeader == [kind |-> "MissingHeader"]
BadHeader == [kind |-> "BadHeader"]
Csv == [kind |-> "Csv"]
BadIdentifier(id) == [kind |-> "BadIdentifier", arg |-> id]
BadType(e) == [kind |-> "BadType", arg |-> e]
BadConstraints(e) == [kind |-> "BadConstraints", arg |-> e]

\* CsvxColumnType (lib.rs 172-178)
Column(id, t, c, d) == [id |-> id, ty |-> t, constraints |-> c, description |-> d]

SchemaHeader == << <<"i","d">>, <<"t","y","p","e">>,
                   <<"c","o","n","s","t","r","a","i","n","t","s">>,
                   <<"d","e","s","c","r","i","p","t","i","o","n">> >>

\* rdr.decode() into a 4-tuple of String (lib.rs 380-381, 404-405): the csv
\* reader is not flexible, so a record whose length differs from the first
\* record's is an error; a record of fewer than four fields cannot fill the
\* tuple; whether fields past the fourth are an error or are dropped is the
\* csv crate's choice (lenIgnored)
DecodeFails(text, i, lenIgnored) ==
    \/ Len(text[i]) # Len(text[1])
    \/ Len(text[i]) < 4
    \/ Len(text[i]) > 4 /\ ~lenIgnored

\* the body of the loop for the record at position i of the text, recno = i - 2
\* and lineno = recno + 2 (lib.rs 404-448): the column, or the error returned
RowResult_type_first(text, i, lenIgnored) ==
    LET rec == text[i]
        lineno == (i - 2) + 2
        col_type == ColumnType_try_from(rec[2])
        col_constraints == ColumnConstraints_try_from(rec[3])
    IN  IF DecodeFails(text, i, lenIgnored) THEN Err(At(Csv, LocFileLine(1)))
        ELSE IF col_type.tag = "Err"
        THEN Err(At(BadType(col_type.err), LocFileLineField(lineno, 1)))
        ELSE IF ~IDENT_UNDERSCORE_RE_is_match(rec[1])
        THEN Err(At(BadIdentifier(rec[1]), LocFileLineField(lineno, 1)))
        ELSE IF col_constraints.tag = "Err"
        THEN Err(At(BadConstraints(col_constraints.err), LocFileLine(lineno)))
        ELSE Ok(Column(rec[1], col_type.val, col_constraints.val, rec[4]))

RowResult(text, i, lenIgnored) ==
    LET rec == text[i]
        lineno == (i - 2) + 2
        col_type == ColumnType_try_from(rec[2])
        col_constraints == ColumnConstraints_try_from(rec[3])
    IN  IF DecodeFails(text, i, lenIgnored) THEN Err(At(Csv, LocFileLine(1)))
        ELSE IF ~IDENT_UNDERSCORE_RE_is_match(rec[1])
        THEN Err(At(BadIdentifier(rec[1]), LocFileLineField(lineno, 1)))
        ELSE IF col_type.tag = "Err"
        THEN Err(At(BadType(col_type.err), LocFileLineField(lineno, 1)))
        ELSE IF col_constraints.tag = "Err"
        THEN Err(At(BadConstraints(col_constraints.err), LocFileLine(lineno)))
        ELSE Ok(Column(rec[1], col_type.val, col_constraints.val, rec[4]))

RECURSIVE LoadRows_prepend(_, _, _, _)
LoadRows_prepend(text, i, lenIgnored, columns) ==
    IF i > Len(text) THEN Ok(columns)
    ELSE LET r == RowResult(text, i, lenIgnored)
         IN  IF r.tag = "Err" THEN r
             ELSE LoadRows_prepend(text, i + 1, lenIgnored, <<r.val>> \o columns)

RECURSIVE LoadRows(_, _, _, _)
\* the loop over the records after the header (lib.rs 403-453), from
\* position i on, with the columns pushed so far
LoadRows(text, i, lenIgnored, columns) ==
    IF i > Len(text) THEN Ok(columns)
    ELSE LET r == RowResult(text, i, lenIgnored)
         IN  IF r.tag = "Err" THEN r
             ELSE LoadRows(text, i + 1, lenIgnored, Append(columns, r.val))

\* CsvxSchema::from_string (lib.rs 371-456) on the records of the text
from_string(text, lenIgnored) ==
    IF text = <<>> THEN Err(At(MissingHeader, LocFileLine(1)))
    ELSE IF DecodeFails(text, 1, lenIgnored) THEN Err(At(Csv, LocFile))
    ELSE IF SubSeq(text[1], 1, 4) # SchemaHeader THEN Err(At(BadHeader, LocFileLine(1)))
    ELSE LoadRows(text, 2, lenIgnored, <<>>)

(***************************************************************************)
(* Inputs of CsvxSchema::from_string                                       *)
(***************************************************************************)
MaxRows == 2

IdGood == <<"a","_","1">>
IdBad == <<"A">>
EnumAB == KwENUM \o <<"(","A",",","B",")">>
TypeFoo == <<"F","O","O">>
ConsBoth == NULLABLE \o <<",">> \o UNIQUE
ConsFoo == <<"F","O","O">>
ConsMalformed == <<"n","u","l","l">>
Desc == <<"d","e","s","c">>

HeaderInputs ==
    {SchemaHeader,
     SubSeq(SchemaHeader, 1, 3),
     Append(SchemaHeader, <<"x">>),
     << <<"x">> >> \o SchemaHeader,
     [SchemaHeader EXCEPT ![1] = <<"I","D">>],
     <<SchemaHeader[2], SchemaHeader[1], SchemaHeader[3], SchemaHeader[4]>>}

RowInputs ==
    {<<id, t, c, Desc>> :
        id \in {IdGood, IdBad}, t \in {KwINTEGER, EnumAB, TypeFoo},
        c \in {<<>>, ConsBoth, ConsFoo}}
    \cup {<<IdGood, KwDATE, ConsMalformed, Desc>>,
          <<IdGood, KwENUM \o <<"(","a",")">>, NULLABLE, Desc>>,
          <<<<"b">>, KwSTRING, UNIQUE, <<>>>>,
          <<IdGood, KwINTEGER, NULLABLE>>,
          <<IdGood, KwINTEGER, NULLABLE, Desc, <<"x">>>>}

RECURSIVE SeqsUpTo(_, _)
\* the sequences of at most n elements of set
SeqsUpTo(set, n) ==
    IF n = 0 THEN {<<>>}
    ELSE LET shorter == SeqsUpTo(set, n - 1)
         IN  shorter \cup {Append(q, x) : q \in shorter, x \in set}

SchemaInputs ==
    {<<>>} \cup {<<h>> \o rows : h \in HeaderInputs, rows \in SeqsUpTo(RowInputs, MaxRows)}

InitSchema ==
    /\ src \in SchemaInputs
    /\ lenient \in BOOLEAN
    /\ loaded = Pending
    /\ IdleFilename /\ IdleType /\ IdleFile /\ IdleConstraints /\ IdleValue /\ IdleSession /\ IdleCheck

\* one call of CsvxSchema::from_string
FromString ==
    /\ loaded = Pending
    /\ loaded' = from_string(src, lenient)
    /\ UNCHANGED <<filename, metadata, s, ty, src, lenient, file, outcome, trace,
                 cs, ccs, column, raw, value,
                 sessionVars, checkVars>>

NextSchema == FromString
SpecSchema == InitSchema /\ [][NextSchema]_vars

(***************************************************************************)
(* Claims about CsvxSchema::from_string                                    *)
(***************************************************************************)
\* the header record was read and accepted
HeaderAccepted ==
    /\ src # <<>>
    /\ ~DecodeFails(src, 1, lenient)
    /\ SubSeq(src[1], 1, 4) = SchemaHeader

BadId(i) == ~IDENT_UNDERSCORE_RE_is_match(src[i][1])
BadTy(i) == ColumnType_try_from(src[i][2]).tag = "Err"
BadCons(i) == ColumnConstraints_try_from(src[i][3]).tag = "Err"
\* record i decodes and fails one of the three checks
Defective(i) == ~DecodeFails(src, i, lenient) /\ (BadId(i) \/ BadTy(i) \/ BadCons(i))
\* the records after the header that do not give a column
Problems == {i \in 2..Len(src) : DecodeFails(src, i, lenient) \/ Defective(i)}

C5_BadHeaderForAnyOtherFirstRow ==
    (loaded # Pending /\ src # <<>> /\ src[1] # SchemaHeader) =>
        loaded = Err(At(BadHeader, LocFileLine(1)))

\* C6: when from_string succeeds the schema has one column per row after the
\* header, in the order of the rows, and column i has the id, the parsed type,
\* the parsed constraints and the verbatim description of row i.
C6_ColumnsFollowRows ==
    (loaded # Pending /\ loaded.tag = "Ok") =>
        /\ Len(loaded.val) = Len(src) - 1
        /\ \A i \in 1..Len(loaded.val) :
             /\ loaded.val[i].id = src[i + 1][1]
             /\ Ok(loaded.val[i].ty) = ColumnType_try_from(src[i + 1][2])
             /\ Ok(loaded.val[i].constraints) = ColumnConstraints_try_from(src[i + 1][3])
             /\ loaded.val[i].description = src[i + 1][4]

\* C6 witness: a schema of two columns that differ in id, type, constraints
\* and description has been loaded.
C6_Witness ==
    /\ loaded # Pending
    /\ loaded.tag = "Ok"
    /\ Len(loaded.val) = 2
    /\ loaded.val[1].id # loaded.val[2].id
    /\ loaded.val[1].ty # loaded.val[2].ty
    /\ loaded.val[1].constraints # loaded.val[2].constraints
    /\ loaded.val[1].description # loaded.val[2].description

(***************************************************************************)
(* Value (lib.rs 180-190) and CsvxColumnType::validate_value               *)
(* (lib.rs 250-338)                                                        *)
(***************************************************************************)
NoValue == [variant |-> "None"]
ValString(t) == [variant |-> "String", text |-> t]
ValBool(b) == [variant |-> "Bool", bool |-> b]
ValInteger(neg, magnitude) == [variant |-> "Integer", neg |-> neg, magnitude |-> magnitude]
ValEnum(p) == [variant |-> "Enum", index |-> p]
ValDecimal(t) == [variant |-> "Decimal", text |-> t]
ValDate(y, m, d) == [variant |-> "Date", date |-> <<y, m, d>>]
ValDateTime(y, m, d, h, mi, sec) ==
    [variant |-> "DateTime", date |-> <<y, m, d>>, time |-> <<h, mi, sec>>]
ValTime(h, mi, sec) == [variant |-> "Time", time |-> <<h, mi, sec>>]

\* ValueError (err.rs 606-632)
NonNullable == [kind |-> "NonNullable"]
InvalidBool(t) == [kind |-> "InvalidBool", arg |-> t]
InvalidInt(t) == [kind |-> "InvalidInt", arg |-> t]
InvalidEnum(t, variants) == [kind |-> "InvalidEnum", arg |-> t, variants |-> variants]
InvalidDecimal(t) == [kind |-> "InvalidDecimal", arg |-> t]
InvalidDate(t) == [kind |-> "InvalidDate", arg |-> t]
InvalidDateTime(t) == [kind |-> "InvalidDateTime", arg |-> t]
InvalidTime(t) == [kind |-> "InvalidTime", arg |-> t]

KwTRUE == <<"T","R","U","E">>
KwFALSE == <<"F","A","L","S","E">>

\* str::parse::<i64> (lib.rs 274): an optional sign, "+" or "-", then one or
\* more ASCII digits, the value within the 64-bit range.  The value is kept
\* as a sign and the digits without leading zeros, since it exceeds the
\* model checker's integers.
I64MaxDigits == <<"9","2","2","3","3","7","2","0","3","6","8","5","4","7","7","5","8","0","7">>
I64MinDigits == <<"9","2","2","3","3","7","2","0","3","6","8","5","4","7","7","5","8","0","8">>

RECURSIVE StripZeros(_)
StripZeros(d) ==
    IF Len(d) > 1 /\ d[1] = "0" THEN StripZeros(SubSeq(d, 2, Len(d))) ELSE d

\* a <= b for digit sequences of the same length
DigitsLeq(a, b) ==
    \/ a = b
    \/ \E i \in 1..Len(a) :
         /\ SubSeq(a, 1, i - 1) = SubSeq(b, 1, i - 1)
         /\ DigitVal(a[i]) < DigitVal(b[i])

IntSigned(t) == Len(t) >= 1 /\ t[1] \in {"+", "-"}
IntDigits(t) == IF IntSigned(t) THEN SubSeq(t, 2, Len(t)) ELSE t
IntNegative(t) == Len(t) >= 1 /\ t[1] = "-"

ParsesAsI64_no_leading_zeros(t) ==
    LET d == IntDigits(t)
    IN  /\ Len(d) >= 1
        /\ All(d, AsciiDigit)
        /\ StripZeros(d) = d
        /\ \/ Len(d) < 19
           \/ /\ Len(d) = 19
              /\ DigitsLeq(d, IF IntNegative(t) THEN I64MinDigits ELSE I64MaxDigits)

ParsesAsI64(t) ==
    LET d == IntDigits(t)
        m == StripZeros(d)
    IN  /\ Len(d) >= 1
        /\ All(d, AsciiDigit)
        /\ \/ Len(m) < 19
           \/ /\ Len(m) = 19
              /\ DigitsLeq(m, IF IntNegative(t) THEN I64MinDigits ELSE I64MaxDigits)

I64Value(t) ==
    LET m == StripZeros(IntDigits(t))
    IN  ValInteger(IntNegative(t) /\ m # <<"0">>, m)

\* DECIMAL_RE (regexes.rs 23-27): ^\d+(?:\.\d+)?$
DECIMAL_RE_is_match(t) ==
    \/ Len(t) >= 1 /\ All(t, UnicodeDigit)
    \/ \E p \in 2..(Len(t) - 1) :
         /\ t[p] = "."
         /\ All(SubSeq(t, 1, p - 1), UnicodeDigit)
         /\ All(SubSeq(t, p + 1, Len(t)), UnicodeDigit)

\* DATE_RE, DATETIME_RE, TIME_RE (regexes.rs 29-45): exactly n digits of \d
DigitsRe(t, n) == Len(t) = n /\ All(t, UnicodeDigit)
\* capture group of two digits that starts at position i, and of four
Cap2(t, i) == SubSeq(t, i, i + 1)
Cap4(t, i) == SubSeq(t, i, i + 3)

\* NaiveTime::from_hms_opt and NaiveDate::and_hms_opt (lib.rs 315, 329)
from_hms_opt(h, mi, sec) == h < 24 /\ mi < 60 /\ sec < 60

EnumPosition_last(variants, v) == Max({i \in 1..Len(variants) : variants[i] = v}) - 1

\* position of the first variant equal to v, counted from 0 (lib.rs 281)
EnumPosition(variants, v) == Min({i \in 1..Len(variants) : variants[i] = v}) - 1

\* the Date arm (lib.rs 297-307)
ValidateDate(t) ==
    IF ~DigitsRe(t, 8) THEN Err(InvalidDate(t))
    ELSE IF CapPanics(t) THEN Panic
    ELSE IF from_ymd_opt(cap(Cap4(t, 1)), cap(Cap2(t, 5)), cap(Cap2(t, 7)))
    THEN Ok(ValDate(cap(Cap4(t, 1)), cap(Cap2(t, 5)), cap(Cap2(t, 7))))
    ELSE Err(InvalidDate(t))

\* the DateTime arm (lib.rs 308-324): the date groups are parsed and checked
\* first, the time groups only when the date is valid
ValidateDateTime(t) ==
    IF ~DigitsRe(t, 14) THEN Err(InvalidDateTime(t))
    ELSE IF CapPanics(SubSeq(t, 1, 8)) THEN Panic
    ELSE IF ~from_ymd_opt(cap(Cap4(t, 1)), cap(Cap2(t, 5)), cap(Cap2(t, 7)))
    THEN Err(InvalidDate(t))
    ELSE IF CapPanics(SubSeq(t, 9, 14)) THEN Panic
    ELSE IF from_hms_opt(cap(Cap2(t, 9)), cap(Cap2(t, 11)), cap(Cap2(t, 13)))
    THEN Ok(ValDateTime(cap(Cap4(t, 1)), cap(Cap2(t, 5)), cap(Cap2(t, 7)),
                        cap(Cap2(t, 9)), cap(Cap2(t, 11)), cap(Cap2(t, 13))))
    ELSE Err(InvalidTime(t))

\* the Time arm (lib.rs 325-335)
ValidateTime(t) ==
    IF ~DigitsRe(t, 6) THEN Err(InvalidTime(t))
    ELSE IF CapPanics(t) THEN Panic
    ELSE IF from_hms_opt(cap(Cap2(t, 1)), cap(Cap2(t, 3)), cap(Cap2(t, 5)))
    THEN Ok(ValTime(cap(Cap2(t, 1)), cap(Cap2(t, 3)), cap(Cap2(t, 5))))
    ELSE Err(InvalidTime(t))

NullRule_string_exempt(col) ==
    IF col.ty.variant = "String" THEN Ok(ValString(<<>>))
    ELSE IF col.constraints.nullable THEN Ok(NoValue) ELSE Err(NonNullable)

\* the null check (lib.rs 255-261)
NullRule(col) == IF col.constraints.nullable THEN Ok(NoValue) ELSE Err(NonNullable)

\* CsvxColumnType::validate_value (lib.rs 251-337): Ok(value), Ok(NoValue) for
\* Ok(None), Err(value error), or Panic
validate_value(col, t) ==
    IF t = <<>>
    THEN NullRule(col)
    ELSE CASE col.ty.variant = "String" -> Ok(ValString(t))
           [] col.ty.variant = "Bool" ->
                IF t = KwTRUE THEN Ok(ValBool(TRUE))
                ELSE IF t = KwFALSE THEN Ok(ValBool(FALSE))
                ELSE Err(InvalidBool(t))
           [] col.ty.variant = "Integer" ->
                IF ParsesAsI64(t) THEN Ok(I64Value(t)) ELSE Err(InvalidInt(t))
           [] col.ty.variant = "Enum" ->
                IF \E i \in 1..Len(col.ty.variants) : col.ty.variants[i] = t
                THEN Ok(ValEnum(EnumPosition(col.ty.variants, t)))
                ELSE Err(InvalidEnum(t, col.ty.variants))
           [] col.ty.variant = "Decimal" ->
                IF DECIMAL_RE_is_match(t) THEN Ok(ValDecimal(t)) ELSE Err(InvalidDecimal(t))
           [] col.ty.variant = "Date" -> ValidateDate(t)
           [] col.ty.variant = "DateTime" -> ValidateDateTime(t)
           [] col.ty.variant = "Time" -> ValidateTime(t)

(***************************************************************************)
(* Inputs of CsvxColumnType::validate_value                                *)
(***************************************************************************)
ColumnTypes ==
    {TyString, TyBool, TyInteger, TyDecimal, TyDate, TyDateTime, TyTime,
     TyEnum(<< <<"A">>, <<"B">> >>), TyEnum(<< <<>> >>),
     TyEnum(<< <<"B">>, <<"A">>, <<"B">> >>)}
ColumnInputs ==
    {Column(IdGood, t, Constraints(n, FALSE), Desc) : t \in ColumnTypes, n \in BOOLEAN}

DateParts ==
    {DateDigits(2017, 4, 1), DateDigits(2017, 2, 30), DateDigits(2017, 13, 1),
     DateDigits(2016, 2, 29), DateDigits(2017, 2, 29), DateDigits(2017, 4, 0),
     <<"2","0","1","7","0","4","0","U+0663">>}
TimeParts ==
    {Pad2(h) \o Pad2(mi) \o Pad2(sec) : h \in {0, 23, 24}, mi \in {0, 59, 60}, sec \in {0, 59, 60}}
    \cup {<<"1","2","0","0","0","U+0663">>}
IntegerTexts ==
    {<<"5">>, <<"-","5">>, <<"+","5">>, <<"0">>, <<"-","0">>, <<"0","0","7">>, <<"1",".","5">>,
     <<"a","b","c">>, <<"5","a">>, <<"-">>, <<"+">>, <<" ","5">>, <<"5"," ">>, <<"-","-","5">>,
     <<"+","-","5">>, <<"5","-">>, <<"U+0663">>, <<"1","2","3","4","5","6","7","8","9","0">>,
     I64MaxDigits, <<"+">> \o I64MaxDigits, <<"-">> \o I64MaxDigits, I64MinDigits,
     <<"-">> \o I64MinDigits, <<"0","0">> \o I64MaxDigits,
     <<"-","9","2","2","3","3","7","2","0","3","6","8","5","4","7","7","5","8","0","9">>,
     I64MaxDigits \o <<"0">>, <<"7">>, <<"-","7">>, <<"-","0","0","7">>, <<"0","0">>}
OtherTexts ==
    {<<>>, KwTRUE, KwFALSE, <<"t","r","u","e">>, <<"1">>, <<"A">>, <<"B">>, <<"C">>, <<"a">>,
     <<"1",".">>, <<".","5">>, <<"1",".","5",".","2">>, <<"U+0663",".","U+0663">>, <<" ">>,
     <<"2","0","1","7","0","4","0">>, <<"1","2","0","0","0">>,
     <<"1",".","5","0">>, <<"0","1",".","5">>, <<"-","1",".","5">>, <<"+","1",".","5">>,
     <<"1","e","5">>, <<"1",",","5">>, <<"1",".","5",Newline>>, <<"1",".","U+0663">>}
RawInputs ==
    IntegerTexts \cup OtherTexts \cup DateParts \cup TimeParts
    \cup {d \o tp : d \in DateParts, tp \in TimeParts}

InitValue ==
    /\ column \in ColumnInputs
    /\ raw \in RawInputs
    /\ value = Pending
    /\ IdleFilename /\ IdleType /\ IdleSchema /\ IdleFile /\ IdleConstraints /\ IdleSession /\ IdleCheck

\* one call of CsvxColumnType::validate_value
ValidateValue ==
    /\ value = Pending
    /\ value' = validate_value(column, raw)
    /\ UNCHANGED <<filename, metadata, s, ty, src, lenient, loaded, file, outcome, trace,
                   cs, ccs, column, raw,
                 sessionVars, checkVars>>

NextValue == ValidateValue
SpecValue == InitValue /\ [][NextValue]_vars

(***************************************************************************)
(* Claims about CsvxColumnType::validate_value                             *)
(***************************************************************************)
\* validate_value was called on a column of type kind with a non-empty value
Validated_as(kind) == value # Pending /\ column.ty.variant = kind /\ raw # <<>>

\* C15: for a DateTime column and a non-empty raw value, every failure that
\* validate_value reports is InvalidDateTime(raw), never InvalidDate or
\* InvalidTime, also when the 14 digits hold an invalid date or time.
C15_DateTimeFailuresAreInvalidDateTime ==
    (Validated_as("DateTime") /\ value.tag = "Err") => value = Err(InvalidDateTime(raw))

\* What holds of C15 in the code: InvalidDateTime when the value is not 14
\* digits, InvalidDate when the date part is invalid, InvalidTime when only
\* the time part is.
DateTimeFailureByPart ==
    (Validated_as("DateTime") /\ value.tag = "Err") =>
        value = IF ~DigitsRe(raw, 14) THEN Err(InvalidDateTime(raw))
                ELSE IF ~from_ymd_opt(Num(Cap4(raw, 1)), Num(Cap2(raw, 5)), Num(Cap2(raw, 7)))
                THEN Err(InvalidDate(raw))
                ELSE Err(InvalidTime(raw))

\* an optional "-", then one or more decimal digits, the value within the
\* signed 64-bit range
SignedDecimalI64(t) ==
    LET neg == Len(t) >= 1 /\ t[1] = "-"
        d == IF neg THEN Tail(t) ELSE t
    IN  /\ Len(d) >= 1
        /\ All(d, AsciiDigit)
        /\ \/ Len(StripZeros(d)) < 19
           \/ /\ Len(StripZeros(d)) = 19
              /\ DigitsLeq(StripZeros(d), IF neg THEN I64MinDigits ELSE I64MaxDigits)

\* C16: for an Integer column, validate_value accepts a non-empty raw value
\* if and only if it is an optional leading "-" and one or more decimal
\* digits that denote a value of the signed 64-bit range; every other value
\* fails with InvalidInt(raw).
C16_IntegerAcceptsMinusAndDigitsOnly ==
    Validated_as("Integer") =>
        IF SignedDecimalI64(raw) THEN value.tag = "Ok" ELSE value = Err(InvalidInt(raw))

\* What holds of C16 in the code: the same, with a leading "+" accepted too.
IntegerAcceptsEitherSign ==
    Validated_as("Integer") =>
        IF SignedDecimalI64(raw) \/ (Len(raw) >= 2 /\ raw[1] = "+" /\ raw[2] # "-"
                                     /\ SignedDecimalI64(Tail(raw)))
        THEN value.tag = "Ok" ELSE value = Err(InvalidInt(raw))

\* C17: validate_value applies the null rule before any type dispatch: for
\* every column type an empty raw value gives Ok(None) when the column is
\* nullable and Err(NonNullable) when it is not, and a non-empty raw value
\* gives neither.
C17_NullRuleFirst ==
    value # Pending =>
        IF raw = <<>>
        THEN value = (IF column.constraints.nullable THEN Ok(NoValue) ELSE Err(NonNullable))
        ELSE value # Ok(NoValue) /\ value # Err(NonNullable)

\* C17 witness: an empty value in a String column that is not nullable gave
\* NonNullable.
C17_Witness ==
    /\ value = Err(NonNullable)
    /\ raw = <<>>
    /\ column.ty = TyString
    /\ ~column.constraints.nullable

\* C18: validate_value, parse_filename, ColumnType::try_from and
\* ColumnConstraints::try_from are total: for every input string, those with
\* non-ASCII decimal digits included, they return a value or a typed error,
\* and no panic of cap escapes to the caller.
C18_NoPanic ==
    /\ value.tag # "Panic"
    /\ metadata.tag # "Panic"
    /\ ty.tag # "Panic"
    /\ ccs.tag # "Panic"

\* What holds of C18 in the code: validate_value panics exactly on the Date,
\* DateTime and Time values that match the digit pattern and hold a digit
\* outside ASCII in a group that is parsed.
PanicOnlyOnNonAsciiDigits ==
    value # Pending =>
        (value.tag = "Panic" <=>
            /\ raw # <<>>
            /\ \/ column.ty = TyDate /\ DigitsRe(raw, 8) /\ ~All(raw, AsciiDigit)
               \/ column.ty = TyTime /\ DigitsRe(raw, 6) /\ ~All(raw, AsciiDigit)
               \/ /\ column.ty = TyDateTime /\ DigitsRe(raw, 14)
                  /\ \/ ~All(SubSeq(raw, 1, 8), AsciiDigit)
                     \/ /\ from_ymd_opt(Num(Cap4(raw, 1)), Num(Cap2(raw, 5)), Num(Cap2(raw, 7)))
                        /\ ~All(SubSeq(raw, 9, 14), AsciiDigit))

\* C21: for an Enum column and a non-empty raw value, validate_value
\* succeeds if and only if raw equals a declared variant, and then returns
\* Value::Enum(p) with p the index of the first variant equal to raw;
\* otherwise it fails with InvalidEnum carrying raw and the declared variant
\* list in declaration order.
C21_EnumIndexOfFirstMatch ==
    Validated_as("Enum") =>
        LET variants == column.ty.variants
        IN  IF \E i \in 1..Len(variants) : variants[i] = raw
            THEN /\ value.tag = "Ok"
                 /\ value.val.variant = "Enum"
                 /\ variants[value.val.index + 1] = raw
                 /\ \A q \in 1..value.val.index : variants[q] # raw
            ELSE value = Err(InvalidEnum(raw, variants))

\* C21 witness: a value that equals the first and the third declared variant
\* gave index 0.
C21_Witness ==
    /\ Validated_as("Enum")
    /\ column.ty.variants = << <<"B">>, <<"A">>, <<"B">> >>
    /\ raw = <<"B">>
    /\ value = Ok(ValEnum(0))

\* t is eight ASCII digits YYYYMMDD that form a date of the calendar
EightDigitDate(t) ==
    /\ Len(t) = 8
    /\ All(t, AsciiDigit)
    /\ RealCalendarDate(Num(SubSeq(t, 1, 4)), Num(SubSeq(t, 5, 6)), Num(SubSeq(t, 7, 8)))

\* C22: for a Date column and a non-empty raw value, validate_value succeeds
\* if and only if raw is exactly eight digits YYYYMMDD that form a valid
\* calendar date, returning that date; every other value fails with
\* InvalidDate(raw).
C22_DateIsEightDigitCalendarDate ==
    Validated_as("Date") =>
        IF EightDigitDate(raw)
        THEN value = Ok(ValDate(Num(SubSeq(raw, 1, 4)), Num(SubSeq(raw, 5, 6)),
                                Num(SubSeq(raw, 7, 8))))
        ELSE value = Err(InvalidDate(raw))

\* What holds of C22 in the code: the same, whenever validate_value does not
\* panic.
DateIsEightDigitCalendarDateUnlessPanic ==
    (Validated_as("Date") /\ value.tag # "Panic") =>
        IF EightDigitDate(raw)
        THEN value = Ok(ValDate(Num(SubSeq(raw, 1, 4)), Num(SubSeq(raw, 5, 6)),
                                Num(SubSeq(raw, 7, 8))))
        ELSE value = Err(InvalidDate(raw))

\* t is one or more characters of digits, optionally followed by one dot and
\* one or more characters of digits
DecimalText(t, digits) ==
    /\ Len(t) >= 1
    /\ \A i \in 1..Len(t) : t[i] \in digits \cup {"."}
    /\ Cardinality(Positions(t, ".")) <= 1
    /\ t[1] # "." /\ t[Len(t)] # "."

\* C23: for a Decimal column and a non-empty raw value, validate_value
\* succeeds if and only if raw is one or more digits optionally followed by a
\* single dot and one or more digits, and then stores the raw text unchanged;
\* every other value fails with InvalidDecimal(raw).
C23_DecimalKeepsText ==
    Validated_as("Decimal") =>
        IF DecimalText(raw, AsciiDigit)
        THEN value = Ok(ValDecimal(raw))
        ELSE value = Err(InvalidDecimal(raw))

\* What holds of C23 in the code: the same with every Unicode decimal digit
\* counted as a digit.
DecimalKeepsTextOfUnicodeDigits ==
    Validated_as("Decimal") =>
        IF DecimalText(raw, UnicodeDigit)
        THEN value = Ok(ValDecimal(raw))
        ELSE value = Err(InvalidDecimal(raw))

\* the digits d without their leading zeros: the part from the first digit
\* that is not 0, or the last digit when all are 0
WithoutLeadingZeros(d) ==
    LET nonzero == {i \in 1..Len(d) : d[i] # "0"}
    IN  SubSeq(d, IF nonzero = {} THEN Len(d) ELSE Min(nonzero), Len(d))
\* raw is digits, or "-" and digits, and the digits start with a 0 that is
\* not the only digit
HasLeadingZeros(t) ==
    LET d == IF Len(t) >= 1 /\ t[1] = "-" THEN Tail(t) ELSE t
    IN  Len(d) >= 2 /\ All(d, AsciiDigit) /\ d[1] = "0"

InvalidByte == "0xFF"
DataFile(readable, header, rows) == [readable |-> readable, header |-> header, rows |-> rows]

\* ValidationError (err.rs 516-531)
MissingHeaders == [kind |-> "MissingHeaders"]
HeaderMismatch(actual) == [kind |-> "HeaderMismatch", arg |-> actual]
ValueError(e) == [kind |-> "ValueError", arg |-> e]

Unit == <<>>

\* a record holds bytes that are not UTF-8
NotUtf8(rec) == \E j \in 1..Len(rec) : \E i \in 1..Len(rec[j]) : rec[j][i] = InvalidByte

\* rdr.records() (lib.rs 496-503) gives an error for row i: the reader is not
\* flexible, so a record of another length than the first is an error, and
\* so is one that is not UTF-8
RecordFails(f, i) == Len(f.rows[i]) # Len(f.header) \/ NotUtf8(f.rows[i])

HeaderCountDiffers_fewer_only(cols, header) == Len(header) < Len(cols)

\* the test of the header length (lib.rs 472)
HeaderCountDiffers(cols, header) == Len(header) # Len(cols)

\* Iterator::zip: the pairs end with the shorter of the two
ZipLen(a, b) == IF Len(a) <= Len(b) THEN Len(a) ELSE Len(b)

RECURSIVE HeaderErrsFrom(_, _, _)
\* the loop over the header fields (lib.rs 483-489) from position j on, idx = j - 1
HeaderErrsFrom(cols, header, j) ==
    IF j > ZipLen(cols, header) THEN <<>>
    ELSE (IF cols[j].id # header[j]
          THEN <<At(HeaderMismatch(header[j]), LocFileLineField(1, (j - 1) + 1))>>
          ELSE <<>>)
         \o HeaderErrsFrom(cols, header, j + 1)

HeaderErrs_first_only(cols, header) ==
    LET all == HeaderErrsFrom(cols, header, 1)
    IN  IF all = <<>> THEN <<>> ELSE <<all[1]>>

HeaderErrs(cols, header) == HeaderErrsFrom(cols, header, 1)

RECURSIVE ScanCells(_, _, _, _, _, _)
\* the loop over the cells of one row (lib.rs 505-516) from position j on,
\* idx = j - 1: the errors pushed, the cells validated, and whether
\* validate_value panicked
ScanCells(cols, fields, lineno, j, errs, cells) ==
    IF j > ZipLen(cols, fields) THEN [panic |-> FALSE, errs |-> errs, cells |-> cells]
    ELSE LET v == validate_value(cols[j], fields[j])
         IN  IF v.tag = "Panic" THEN [panic |-> TRUE, errs |-> errs, cells |-> cells + 1]
             ELSE ScanCells(cols, fields, lineno, j + 1,
                            IF v.tag = "Err"
                            THEN Append(errs, At(ValueError(v.err),
                                                 LocFileLineField(lineno, (j - 1) + 1)))
                            ELSE errs,
                            cells + 1)

\* what a call returns and what it touched on the way
Run(result, compared, rows, cells) ==
    [outcome |-> result, trace |-> [compared |-> compared, rows |-> rows, cells |-> cells]]

RowAbort_keeps_errors(errs, i) == Append(errs, At(Csv, LocFileLine((i - 1) + 2)))

\* the result when record i cannot be read (lib.rs 501-503): the `?` returns
\* a new list of one error and leaves errs behind
RowAbort(errs, i) == <<At(Csv, LocFileLine(1))>>

RECURSIVE ScanRows(_, _, _, _, _)
\* the loop over the records (lib.rs 496-523) from row i on, rowid = i - 1 and
\* lineno = rowid + 2, with the errors pushed so far
ScanRows(cols, f, i, errs, cells) ==
    IF i > Len(f.rows)
    THEN Run(IF errs # <<>> THEN Err(errs) ELSE Ok(Unit), Len(cols), i - 1, cells)
    ELSE IF RecordFails(f, i)
    THEN Run(Err(RowAbort(errs, i)), Len(cols), i, cells)
    ELSE LET r == ScanCells(cols, f.rows[i], (i - 1) + 2, 1, errs, cells)
         IN  IF r.panic THEN Run(Panic, Len(cols), i, r.cells)
             ELSE ScanRows(cols, f, i + 1, r.errs, r.cells)

validate_file_enforcing_unique(cols, f) ==
    IF ~f.readable THEN Run(Err(<<At(Csv, LocFile)>>), 0, 0, 0)
    ELSE IF NotUtf8(f.header) THEN Run(Err(<<At(Csv, LocFileLine(1))>>), 0, 0, 0)
    ELSE IF HeaderCountDiffers(cols, f.header)
    THEN Run(Err(<<At(MissingHeaders, LocFileLine(1))>>), 0, 0, 0)
    ELSE IF HeaderErrs(cols, f.header) # <<>>
    THEN Run(Err(HeaderErrs(cols, f.header)), ZipLen(cols, f.header), 0, 0)
    ELSE IF \E c \in 1..Len(cols) : \E r1, r2 \in 1..Len(f.rows) :
               /\ cols[c].constraints.unique /\ r1 < r2
               /\ c <= Len(f.rows[r1]) /\ c <= Len(f.rows[r2])
               /\ f.rows[r1][c] = f.rows[r2][c]
    THEN Run(Err(<<At(Csv, LocFileLine(1))>>), Len(cols), Len(f.rows), 0)
    ELSE ScanRows(cols, f, 1, <<>>, 0)

\* CsvxSchema::validate_file (lib.rs 458-524)
validate_file(cols, f) ==
    IF ~f.readable THEN Run(Err(<<At(Csv, LocFile)>>), 0, 0, 0)
    ELSE IF NotUtf8(f.header) THEN Run(Err(<<At(Csv, LocFileLine(1))>>), 0, 0, 0)
    ELSE IF HeaderCountDiffers(cols, f.header)
    THEN Run(Err(<<At(MissingHeaders, LocFileLine(1))>>), 0, 0, 0)
    ELSE IF HeaderErrs(cols, f.header) # <<>>
    THEN Run(Err(HeaderErrs(cols, f.header)), ZipLen(cols, f.header), 0, 0)
    ELSE ScanRows(cols, f, 1, <<>>, 0)

(***************************************************************************)
(* Loading a schema and validating a data file against it                  *)
(***************************************************************************)
MaxDataRows == 2

IdAge == <<"a","g","e">>
IdDay == <<"d","a","y">>
IdKind == <<"k","i","n","d">>
IdName == <<"n","a","m","e">>
IdAt == <<"a","t">>

SchemaTexts ==
    {<<SchemaHeader>>,
     <<SchemaHeader, <<IdAge, KwINTEGER, NULLABLE, Desc>>>>,
     <<SchemaHeader, <<IdDay, KwDATE, <<>>, Desc>>>>,
     <<SchemaHeader, <<IdAge, KwINTEGER, NULLABLE, Desc>>, <<IdDay, KwDATE, <<>>, Desc>>>>,
     <<SchemaHeader, <<IdKind, EnumAB, UNIQUE, Desc>>, <<IdName, KwSTRING, NULLABLE, Desc>>>>,
     <<SchemaHeader, <<IdAt, KwDATETIME, ConsBoth, Desc>>, <<IdAge, KwINTEGER, <<>>, Desc>>>>,
     <<SchemaHeader, <<IdBad, KwINTEGER, <<>>, Desc>>>>}

Cell5 == <<"5">>
CellA == <<"A">>
CellDate == DateDigits(2017, 4, 1)
CellNonAscii == <<"2","0","1","7","0","4","0","U+0663">>
CellPool == {<<>>, Cell5, CellA, CellDate, CellNonAscii}

\* the column ids a schema text declares
TextIds(text) == [i \in 1..(Len(text) - 1) |-> text[i + 1][1]]
\* the rows of n cells of the pool, and rows the csv reader cannot decode
RowsOf(n) == [1..n -> CellPool]
OddRows(n) == {[i \in 1..(n + 1) |-> Cell5], [i \in 1..n |-> <<InvalidByte>>]}
                \cup (IF n > 1 THEN {[i \in 1..(n - 1) |-> Cell5]} ELSE {})
PlainRows(n) == {[i \in 1..n |-> Cell5], [i \in 1..n |-> <<>>]}

\* headers that differ from the ids: one or every field renamed, one field
\* dropped, one field added
OtherHeaders(ids) ==
    {[ids EXCEPT ![p] = <<"x">>] : p \in 1..Len(ids)}
    \cup {[p \in 1..Len(ids) |-> <<"x">>]}
    \cup {Append(ids, <<"x">>)}
    \cup (IF Len(ids) > 1 THEN {SubSeq(ids, 1, Len(ids) - 1)} ELSE {})

FilesFor(text) ==
    LET ids == TextIds(text)
        n == Len(ids)
    IN  {DataFile(TRUE, ids, rows) :
            rows \in SeqsUpTo(RowsOf(n) \cup OddRows(n), MaxDataRows)}
        \cup UNION {{DataFile(TRUE, h, rows) :
                        rows \in SeqsUpTo(PlainRows(Len(h)), MaxDataRows)} :
                    h \in OtherHeaders(ids) \ {ids}}
        \cup {DataFile(FALSE, <<>>, <<>>), DataFile(TRUE, <<>>, <<>>),
              DataFile(TRUE, <<<<InvalidByte>>>>, <<>>)}

Init ==
    /\ src \in SchemaTexts
    /\ lenient \in BOOLEAN
    /\ loaded = Pending
    /\ file \in {f \in FilesFor(src) : Len(src) > 1 \/ Len(f.header) > 0}
    /\ outcome = Pending
    /\ trace = <<>>
    /\ IdleFilename /\ IdleType /\ IdleConstraints /\ IdleValue /\ IdleSession /\ IdleCheck

\* one call of validate_file on the loaded schema
ValidateFile ==
    /\ loaded # Pending
    /\ loaded.tag = "Ok"
    /\ outcome = Pending
    /\ outcome' = validate_file(loaded.val, file).outcome
    /\ trace' = validate_file(loaded.val, file).trace
    /\ UNCHANGED <<filename, metadata, s, ty, src, lenient, loaded, file,
                 cs, ccs, column, raw, value,
                 sessionVars, checkVars>>

Next == FromString \/ ValidateFile
Spec == Init /\ [][Next]_vars

(***************************************************************************)
(* Claims about CsvxSchema::validate_file                                  *)
(***************************************************************************)
\* validate_file has run on a file it could open and whose header it could read
Validated == outcome # Pending /\ file.readable /\ ~NotUtf8(file.header)
Columns == loaded.val
ColumnIds == [i \in 1..Len(Columns) |-> Columns[i].id]
AllRowsDecode == \A i \in 1..Len(file.rows) : ~RecordFails(file, i)

\* the result of validate_value on the cell in data row r, column c (from 1)
CellResult(r, c) == validate_value(Columns[c], file.rows[r][c])
\* the cells on which validate_value fails
FailingCells ==
    {rc \in (1..Len(file.rows)) \X (1..Len(Columns)) : CellResult(rc[1], rc[2]).tag = "Err"}
\* the cells on which validate_value panics
PanickingCells ==
    {rc \in (1..Len(file.rows)) \X (1..Len(Columns)) : CellResult(rc[1], rc[2]).tag = "Panic"}

\* location a comes before location b in the scan of the file
Before(a, b) == a.line < b.line \/ (a.line = b.line /\ a.field < b.field)
Increasing(L) == \A k \in 1..(Len(L) - 1) : Before(L[k].location, L[k + 1].location)

\* the result lists every failing cell once, in scan order, and is Ok with none
ListsEveryFailingCell ==
    IF FailingCells = {} THEN outcome = Ok(Unit)
    ELSE /\ outcome.tag = "Err"
         /\ Len(outcome.err) = Cardinality(FailingCells)
         /\ Increasing(outcome.err)
         /\ \A k \in 1..Len(outcome.err) :
              \E rc \in FailingCells :
                 outcome.err[k] = At(ValueError(CellResult(rc[1], rc[2]).err),
                                     LocFileLineField(rc[1] + 1, rc[2]))

\* C1: for a data file whose header equals the column ids and whose rows all
\* decode, validate_file returns Err(L) with exactly one ValueError per cell
\* on which validate_value fails, at FileLineField(line = row + 1, field =
\* column), ordered by row and column, whatever failed before; and it returns
\* Ok(()) if and only if no cell fails.
C1_CollectsEveryCellError ==
    (Validated /\ file.header = ColumnIds /\ AllRowsDecode) => ListsEveryFailingCell

\* What holds of C1 in the code: the same, whenever no cell makes
\* validate_value panic.
CollectsEveryCellErrorUnlessPanic ==
    (Validated /\ file.header = ColumnIds /\ AllRowsDecode /\ PanickingCells = {})
        => ListsEveryFailingCell

\* A file with failing cells in two rows, and two in one row, was validated.
CollectsEveryCellErrorReached ==
    /\ Validated /\ file.header = ColumnIds /\ AllRowsDecode /\ PanickingCells = {}
    /\ {<<1, 1>>, <<1, 2>>, <<2, 2>>} \subseteq FailingCells

Differing == {p \in 1..Len(Columns) : file.header[p] # Columns[p].id}

\* C3: when the header has as many fields as the schema has columns and at
\* least one position differs, validate_file returns exactly one
\* HeaderMismatch(actual header text) per differing position, at
\* FileLineField(file, 1, position), in position order, and scans no data row.
C3_HeaderMismatchPerPosition ==
    (Validated /\ Len(file.header) = Len(Columns) /\ Differing # {}) =>
        /\ outcome.tag = "Err"
        /\ Len(outcome.err) = Cardinality(Differing)
        /\ Increasing(outcome.err)
        /\ \A k \in 1..Len(outcome.err) :
             \E p \in Differing :
                outcome.err[k] = At(HeaderMismatch(file.header[p]), LocFileLineField(1, p))
        /\ trace.compared = Len(Columns)
        /\ trace.rows = 0
        /\ trace.cells = 0

\* C3 witness: a header that differs at two positions, over data rows that
\* hold empty cells, was answered with two HeaderMismatch errors.
C3_Witness ==
    /\ Validated
    /\ Len(file.header) = Len(Columns)
    /\ Cardinality(Differing) = 2
    /\ Len(file.rows) > 0
    /\ \E r \in 1..Len(file.rows) : file.rows[r][1] = <<>>
    /\ outcome.tag = "Err"
    /\ Len(outcome.err) = 2

\* the first data row that the csv reader cannot decode
FirstBadRow == Min({i \in 1..Len(file.rows) : RecordFails(file, i)})
\* the scan reaches it: the header is right and no cell before it panics
ReachesBadRow ==
    /\ Validated
    /\ file.header = ColumnIds
    /\ \E i \in 1..Len(file.rows) : RecordFails(file, i)
    /\ \A r \in 1..(FirstBadRow - 1) : \A c \in 1..Len(Columns) :
          CellResult(r, c).tag # "Panic"

\* C30: when validate_file comes to a data row that cannot be decoded, the
\* scan aborts at that row: the result is one Csv error located at
\* FileLine(file, 1) whatever the row's line, the cell errors of earlier rows
\* are dropped, and no later row is read or validated.
C30_UndecodableRowAborts ==
    ReachesBadRow =>
        /\ outcome = Err(<<At(Csv, LocFileLine(1))>>)
        /\ trace.rows = FirstBadRow
        /\ trace.cells = (FirstBadRow - 1) * Len(Columns)

\* C30 witness: the second data row could not be decoded after the first one
\* had given a cell error, and the result was the Csv error alone.
C30_Witness ==
    /\ ReachesBadRow
    /\ FirstBadRow = 2
    /\ \E c \in 1..Len(Columns) : CellResult(1, c).tag = "Err"
    /\ outcome = Err(<<At(Csv, LocFileLine(1))>>)

(***************************************************************************)
(* CsvxSchema::parse_row, read_field, read_field_by_name and col_idx       *)
(* (lib.rs 350-352, 526-566), and the calls made on one loaded schema      *)
(***************************************************************************)
SchemaMismatch == [kind |-> "SchemaMismatch"]

RECURSIVE ParseRowFrom(_, _, _, _)
\* the loop of parse_row (lib.rs 532-541) from position j on, idx = j - 1,
\* with the values pushed to rv so far
ParseRowFrom(cols, fields, j, rv) ==
    IF j > ZipLen(cols, fields) THEN Ok(rv)
    ELSE LET v == validate_value(cols[j], fields[j])
         IN  IF v.tag = "Panic" THEN Panic
             ELSE IF v.tag = "Err" THEN Err(At(ValueError(v.err), (j - 1) + 1))
             ELSE ParseRowFrom(cols, fields, j + 1, Append(rv, v.val))

parse_row_strict(cols, fields) ==
    IF Len(fields) # Len(cols) THEN Err(At(SchemaMismatch, Len(fields)))
    ELSE ParseRowFrom(cols, fields, 1, <<>>)

\* CsvxSchema::parse_row (lib.rs 526-543)
parse_row(cols, fields) == ParseRowFrom(cols, fields, 1, <<>>)

read_field_one_based(cols, fields, idx) ==
    IF idx < 1 \/ idx > Len(cols) \/ idx > Len(fields) THEN Err(SchemaMismatch)
    ELSE LET v == validate_value(cols[idx], fields[idx])
         IN  IF v.tag = "Err" THEN Err(ValueError(v.err)) ELSE v

\* CsvxSchema::read_field (lib.rs 545-557): idx counts from 0; the `?` turns
\* a ValueError into ValidationError::ValueError (err.rs 568-572)
read_field(cols, fields, idx) ==
    IF idx >= Len(cols) THEN Err(SchemaMismatch)
    ELSE IF idx >= Len(fields) THEN Err(SchemaMismatch)
    ELSE LET v == validate_value(cols[idx + 1], fields[idx + 1])
         IN  IF v.tag = "Err" THEN Err(ValueError(v.err)) ELSE v

\* CsvxSchema::col_idx (lib.rs 350-352): Some(index from 0) or None
col_idx(cols, name) ==
    IF \E i \in 1..Len(cols) : cols[i].id = name
    THEN [tag |-> "Some", val |-> Min({i \in 1..Len(cols) : cols[i].id = name}) - 1]
    ELSE None

\* CsvxSchema::read_field_by_name (lib.rs 559-566)
read_field_by_name(cols, fields, name) ==
    IF col_idx(cols, name) = None THEN Err(SchemaMismatch)
    ELSE read_field(cols, fields, col_idx(cols, name).val)

self_after_call_shrunk(cols) == SubSeq(cols, 1, Len(cols) - 1)

\* every method takes &self (lib.rs 458-459, 526-527, 545-546, 559-560) and
\* no field of the schema has interior mutability: self.columns after a call
self_after_call(cols) == cols

CallValidateFile(f) == [op |-> "validate_file", file |-> f]
CallParseRow(fields) == [op |-> "parse_row", fields |-> fields]
CallReadField(fields, idx) == [op |-> "read_field", fields |-> fields, idx |-> idx]
CallReadFieldByName(fields, name) == [op |-> "read_field_by_name", fields |-> fields, name |-> name]

\* what the call returns on a schema of these columns
Returned(cols, call) ==
    CASE call.op = "validate_file" -> validate_file(cols, call.file).outcome
      [] call.op = "parse_row" -> parse_row(cols, call.fields)
      [] call.op = "read_field" -> read_field(cols, call.fields, call.idx)
      [] call.op = "read_field_by_name" -> read_field_by_name(cols, call.fields, call.name)

MaxCalls == 2

SessionTexts ==
    {<<SchemaHeader, <<IdKind, EnumAB, UNIQUE, Desc>>, <<IdName, KwSTRING, NULLABLE, Desc>>>>,
     <<SchemaHeader, <<IdAge, KwINTEGER, ConsBoth, Desc>>, <<IdDay, KwDATE, <<>>, Desc>>,
       <<IdAge, KwBOOL, UNIQUE, Desc>>>>}

RowA == <<CellA, Cell5>>
RowB == <<Cell5, CellDate, KwTRUE>>
RowShort == <<Cell5>>
RowEmpty == << <<>>, <<>>, <<>> >>
RowPanic == <<Cell5, CellNonAscii>>
FieldInputs == {RowA, RowB, RowShort, RowEmpty, RowPanic}
NameInputs == {IdAge, IdDay, IdKind, <<"z">>}

\* data files with the header of the schema text: no row, a valid row, the
\* valid row twice, a row of empty cells first, a row that does not decode last
SessionFiles(text) ==
    LET ids == TextIds(text)
        valid == IF Len(ids) = 2 THEN RowA ELSE RowB
    IN  {DataFile(TRUE, ids, rows) :
            rows \in {<<>>, <<valid>>, <<valid, valid>>,
                      <<SubSeq(RowEmpty, 1, Len(ids)), valid>>, <<valid, RowShort>>}}

\* the calls made: validate_file on each data file, parse_row on each row,
\* read_field at the indices 0 to 3 of a row of three fields and of a row of
\* one, read_field_by_name on the row of three fields
ValidateFileCalls(text) == {CallValidateFile(f) : f \in SessionFiles(text)}
ParseRowCalls == {CallParseRow(fields) : fields \in FieldInputs}
ReadFieldCalls ==
    {CallReadField(fields, idx) : fields \in {RowB, RowShort}, idx \in 0..3}
ReadFieldByNameCalls == {CallReadFieldByName(RowB, name) : name \in NameInputs}

InitSession ==
    /\ src \in SessionTexts
    /\ lenient \in BOOLEAN
    /\ loaded = Pending
    /\ log = <<>>
    /\ IdleFilename /\ IdleType /\ IdleFile /\ IdleConstraints /\ IdleValue /\ IdleCheck

\* the schema is loaded, fewer than MaxCalls calls were made and none panicked
SessionOpen ==
    /\ loaded.tag = "Ok"
    /\ Len(log) < MaxCalls
    /\ \A i \in 1..Len(log) : log[i].returned.tag # "Panic"

\* one call on the schema: the call and what it returned go to the log
Called(call) ==
    /\ SessionOpen
    /\ log' = Append(log, [call |-> call, returned |-> Returned(loaded.val, call)])
    /\ loaded' = Ok(self_after_call(loaded.val))
    /\ UNCHANGED <<filename, metadata, s, ty, src, lenient, file, outcome, trace,
                   cs, ccs, column, raw, value, checkVars>>

SessionValidateFile == \E call \in ValidateFileCalls(src) : Called(call)
SessionParseRow == \E call \in ParseRowCalls : Called(call)
SessionReadField == \E call \in ReadFieldCalls : Called(call)
SessionReadFieldByName == \E call \in ReadFieldByNameCalls : Called(call)

NextSession ==
    \/ FromString
    \/ SessionValidateFile
    \/ SessionParseRow
    \/ SessionReadField
    \/ SessionReadFieldByName
SpecSession == InitSession /\ [][NextSession]_vars

(***************************************************************************)
(* Claims about the calls made on one loaded schema                        *)
(***************************************************************************)
Calls == 1..Len(log)
\* the schema that from_string built, before any call
Built == from_string(src, lenient).val

WithUnique(cols, u) ==
    [c \in 1..Len(cols) |->
        [cols[c] EXCEPT !.constraints = Constraints(cols[c].constraints.nullable, u[c])]]

\* C25: the UNIQUE constraint is never enforced: on schemas that differ only
\* in the unique flags of their columns every call gives the same result, so
\* a file with a repeated value in a UNIQUE column validates when every cell
\* is valid.
C25_UniqueNeverEnforced ==
    loaded.tag = "Ok" =>
        \A i \in Calls : \A u \in [1..Len(Built) -> BOOLEAN] :
            log[i].returned = Returned(WithUnique(Built, u), log[i].call)

\* C25 witness: a file whose two rows hold the same value in a UNIQUE column
\* validated successfully.
C25_Witness ==
    /\ Len(log) >= 1
    /\ log[1].call.op = "validate_file"
    /\ Len(log[1].call.file.rows) = 2
    /\ log[1].call.file.rows[1] = log[1].call.file.rows[2]
    /\ Built[1].constraints.unique
    /\ log[1].returned = Ok(Unit)

\* the result of validate_value with a value error wrapped as
\* ValidationError::ValueError
Wrapped(v) == IF v.tag = "Err" THEN Err(ValueError(v.err)) ELSE v
\* what read_field is to return for the zero-based idx
FieldAt(fields, idx) ==
    IF idx \notin 0..(Len(Built) - 1) \/ idx \notin 0..(Len(fields) - 1)
    THEN Err(SchemaMismatch)
    ELSE Wrapped(validate_value(Built[idx + 1], fields[idx + 1]))

\* C28: read_field(fields, idx) with a zero-based idx returns SchemaMismatch
\* when idx is not a column index or not an index of fields, and otherwise
\* validate_value of column idx on fields[idx] with value errors wrapped;
\* read_field_by_name returns SchemaMismatch when no column has the id, and
\* otherwise what read_field returns at the first column with that id.
C28_ReadFieldByIndexAndName ==
    loaded.tag = "Ok" =>
        \A i \in Calls :
            /\ log[i].call.op = "read_field" =>
                  log[i].returned = FieldAt(log[i].call.fields, log[i].call.idx)
            /\ log[i].call.op = "read_field_by_name" =>
                  LET named == {c \in 1..Len(Built) : Built[c].id = log[i].call.name}
                  IN  IF named = {} THEN log[i].returned = Err(SchemaMismatch)
                      ELSE \E c \in named :
                              /\ \A q \in named : c <= q
                              /\ log[i].returned = FieldAt(log[i].call.fields, c - 1)

\* C28 witness: of two columns with the id age, read_field_by_name read the
\* first one, an Integer.
C28_Witness ==
    /\ Len(log) >= 1
    /\ log[1].call = CallReadFieldByName(RowB, IdAge)
    /\ Cardinality({c \in 1..Len(Built) : Built[c].id = IdAge}) = 2
    /\ log[1].returned = Ok(ValInteger(FALSE, <<"5">>))

\* C29: parse_row pairs columns with fields by position up to the shorter of
\* the two: on failure it returns only the error of the lowest-index failing
\* cell, located at its 1-based index; on success it returns one decoded
\* value per paired position in column order; a row with fewer fields than
\* columns gives a shorter result and surplus fields are ignored, with no
\* SchemaMismatch.
C29_ParseRowStopsAtShorter ==
    loaded.tag = "Ok" =>
        \A i \in Calls : log[i].call.op = "parse_row" =>
            LET fields == log[i].call.fields
                n == IF Len(Built) <= Len(fields) THEN Len(Built) ELSE Len(fields)
                got == log[i].returned
            IN  /\ got.tag = "Err" =>
                     \E j \in 1..n :
                        /\ \A q \in 1..(j - 1) : validate_value(Built[q], fields[q]).tag = "Ok"
                        /\ validate_value(Built[j], fields[j]).tag = "Err"
                        /\ got = Err(At(ValueError(validate_value(Built[j], fields[j]).err), j))
                /\ got.tag = "Ok" =>
                     /\ Len(got.val) = n
                     /\ \A j \in 1..n : validate_value(Built[j], fields[j]) = Ok(got.val[j])
                /\ (\A j \in 1..n : validate_value(Built[j], fields[j]).tag = "Ok")
                     => got.tag = "Ok"

\* C29 witness: a row of one field was accepted by a schema of three columns
\* with one value, and a row of three fields by a schema of two columns with
\* two values.
C29_Witness ==
    /\ Len(log) = 2
    /\ Len(Built) = 3
    /\ log[1].call = CallParseRow(RowShort)
    /\ log[1].returned = Ok(<<ValInteger(FALSE, <<"5">>)>>)
    /\ log[2].call = CallParseRow(RowEmpty)
    /\ log[2].returned.tag = "Err"
    /\ log[2].returned.err.location = 2

(***************************************************************************)
(* The check command: cmd_check and main (main.rs 495-600)                 *)
(***************************************************************************)
\* process::exit(code)
Exit(code) == [tag |-> "Exit", code |-> code]

SchemaPrefix == <<"c","s","v","x","-","s","c","h","e","m","a","-">>

\* CsvxMetadata::is_schema (main.rs 82-84)
is_schema(meta) == StartsWith(meta.schema, SchemaPrefix)

\* CsvxSchema::from_file (main.rs 316-387): csv::Reader::from_file fails on
\* a file that cannot be opened, with the error at Location::File; the rest
\* is from_string on the file's records.
from_file(path, text, lenIgnored) ==
    IF ~path.readable THEN Err(At(Csv, LocFile))
    ELSE from_string(text, lenIgnored)

\* all_good at the end of the loop (main.rs 536-552): no validate_file
\* returned Err
all_good(results) == \A i \in 1..Len(results) : results[i].tag = "Ok"

\* A schema path: is it UTF-8 (Path::to_str), has it a final component
\* (Path::file_name; none for a path ending in ".."), that component, and
\* can the file be opened.
SchemaPath(utf8, has_name, name, readable) ==
    [utf8 |-> utf8, has_name |-> has_name, name |-> name, readable |-> readable]

(***************************************************************************)
(* Inputs of the check command                                             *)
(***************************************************************************)
MaxInputs == 2

CheckDate == DateDigits(2017, 4, 1)
CheckNames ==
    {MkName(<<"a">>, CheckDate, SchemaPrefix \o <<"1">>, DotCsv),
     MkName(<<"a">>, CheckDate, SchemaPrefix, DotCsv),
     MkName(<<"a">>, CheckDate, SchemaPrefix \o <<"1">>, <<"x","c","s","v">>),
     MkName(<<"a">>, CheckDate, <<"x">>, DotCsv),
     MkName(<<"a">>, CheckDate, SubSeq(SchemaPrefix, 1, 11), DotCsv),
     MkName(<<"a">>, DateDigits(2017, 2, 30), SchemaPrefix \o <<"1">>, DotCsv),
     MkName(<<"a">>, CellNonAscii, SchemaPrefix \o <<"1">>, DotCsv),
     <<"a","s","d","f">>}
SchemaPaths ==
    {SchemaPath(FALSE, TRUE, <<InvalidByte>>, TRUE), SchemaPath(TRUE, FALSE, <<>>, TRUE)}
    \cup {SchemaPath(TRUE, TRUE, n, r) : n \in CheckNames, r \in BOOLEAN}
CheckTexts ==
    SessionTexts \cup {<<>>, <<SchemaHeader, <<IdBad, KwINTEGER, <<>>, Desc>>>>}

\* Input files with the header of the schema text: one valid row; a row of
\* empty cells, then the valid row; a valid row, then a row whose second cell
\* has a digit outside ASCII; a file that cannot be opened.
InputPool(text) ==
    LET ids == TextIds(text)
        valid == IF Len(ids) = 2 THEN RowA ELSE RowB
    IN  {DataFile(TRUE, ids, <<valid>>),
         DataFile(TRUE, ids, <<SubSeq(RowEmpty, 1, Len(ids)), valid>>),
         DataFile(TRUE, ids, <<valid, [valid EXCEPT ![2] = CellNonAscii]>>),
         DataFile(FALSE, <<>>, <<>>)}

InitCheck ==
    /\ schema_path \in SchemaPaths
    /\ src \in CheckTexts
    /\ lenient \in BOOLEAN
    /\ loaded = Pending
    /\ input_files \in SeqsUpTo(InputPool(src), MaxInputs)
    /\ pc = "path"
    /\ checked = <<>>
    /\ exit = Pending
    /\ IdleFilename /\ IdleType /\ IdleFile /\ IdleConstraints /\ IdleValue /\ IdleSession

\* main.rs 584-588: cmd_check returned Err, main prints it and exits with 1
Fatal ==
    /\ exit' = Exit(1)
    /\ pc' = "done"

\* a panic unwinds out of main: the process ends with neither exit status
Abort ==
    /\ exit' = Panic
    /\ pc' = "done"

\* main.rs 500-515: SchemaPathUtf8Error unless the path is UTF-8,
\* SchemaNotAFile unless it has a final component
CheckPath ==
    /\ pc = "path"
    /\ IF ~schema_path.utf8 \/ ~schema_path.has_name THEN Fatal
       ELSE pc' = "meta" /\ exit' = exit
    /\ UNCHANGED <<filename, metadata, s, ty, src, lenient, loaded, file, outcome, trace,
                   cs, ccs, column, raw, value, sessionVars,
                   schema_path, input_files, checked>>

\* main.rs 517-525: InvalidCsvxFilename unless parse_filename gives
\* metadata, NotASchema unless the metadata is a schema's
CheckMeta ==
    /\ pc = "meta"
    /\ LET meta == parse_filename(schema_path.name)
       IN  IF meta.tag = "Panic" THEN Abort
           ELSE IF meta.tag = "None" THEN Fatal
           ELSE IF ~is_schema(meta) THEN Fatal
           ELSE pc' = "load" /\ exit' = exit
    /\ UNCHANGED <<filename, metadata, s, ty, src, lenient, loaded, file, outcome, trace,
                   cs, ccs, column, raw, value, sessionVars,
                   schema_path, input_files, checked>>

\* main.rs 527-529: the schema is loaded, a SchemaLoadError is fatal
CheckLoad ==
    /\ pc = "load"
    /\ loaded' = from_file(schema_path, src, lenient)
    /\ IF loaded'.tag = "Err" THEN Fatal
       ELSE pc' = "loop" /\ exit' = exit
    /\ UNCHANGED <<filename, metadata, s, ty, src, lenient, file, outcome, trace,
                   cs, ccs, column, raw, value, sessionVars,
                   schema_path, input_files, checked>>

\* main.rs 537-552: one pass of the loop validates the next input file
CheckFile ==
    /\ pc = "loop"
    /\ Len(checked) < Len(input_files)
    /\ LET result == validate_file(loaded.val, input_files[Len(checked) + 1]).outcome
       IN  IF result.tag = "Panic" THEN Abort /\ checked' = checked
           ELSE /\ checked' = Append(checked, result)
                /\ UNCHANGED <<pc, exit>>
    /\ UNCHANGED <<filename, metadata, s, ty, src, lenient, loaded, file, outcome, trace,
                   cs, ccs, column, raw, value, sessionVars,
                   schema_path, input_files>>

\* main.rs 554 and 589-594: Ok(all_good), and main exits with 0 or 2
CheckExit ==
    /\ pc = "loop"
    /\ Len(checked) = Len(input_files)
    /\ exit' = Exit(IF all_good(checked) THEN 0 ELSE 2)
    /\ pc' = "done"
    /\ UNCHANGED <<filename, metadata, s, ty, src, lenient, loaded, file, outcome, trace,
                   cs, ccs, column, raw, value, sessionVars,
                   schema_path, input_files, checked>>

NextCheck == CheckPath \/ CheckMeta \/ CheckLoad \/ CheckFile \/ CheckExit
SpecCheck == InitCheck /\ [][NextCheck]_vars
\* the process keeps running until it exits
FairSpecCheck == SpecCheck /\ WF_vars(NextCheck)

(***************************************************************************)
(* Claims about the check command                                          *)
(***************************************************************************)
\* the metadata of the schema path's file name
SchemaMeta == parse_filename(schema_path.name)
\* the file name of the schema path makes parse_filename panic
NamePanics ==
    schema_path.utf8 /\ schema_path.has_name /\ SchemaMeta.tag = "Panic"
\* the file name parses, names a schema, and the schema loads
SchemaAccepted ==
    /\ schema_path.utf8
    /\ schema_path.has_name
    /\ SchemaMeta.tag = "Some"
    /\ is_schema(SchemaMeta)
    /\ from_file(schema_path, src, lenient).tag = "Ok"
\* what validate_file returns on the i-th input file
Expected(i) ==
    validate_file(from_file(schema_path, src, lenient).val, input_files[i]).outcome
\* the input files on which validate_file panics
PanickingInputs == {i \in 1..Len(input_files) : Expected(i).tag = "Panic"}
Exited == exit # Pending

\* C26: No data file is validated unless the schema path's file name parses
\* as a CSVX filename, its schema name starts with csvx-schema- and the schema
\* loads, and each of these failures ends the process with exit status 1.
\* Otherwise the input files are validated in the order given, all of them
\* whatever the earlier ones returned, and the process exits with 0 when
\* every one validated (also when there is none) and with 2 when one failed.
C26_CheckCommand ==
    /\ checked # <<>> => SchemaAccepted
    /\ (Exited /\ ~SchemaAccepted) => exit = Exit(1)
    /\ \A i \in 1..Len(checked) : checked[i] = Expected(i)
    /\ (Exited /\ SchemaAccepted) =>
          /\ Len(checked) = Len(input_files)
          /\ exit = Exit(IF \A i \in 1..Len(input_files) : Expected(i).tag = "Ok"
                         THEN 0 ELSE 2)

\* What holds: the same, except that a file name on which parse_filename
\* panics ends the process by the panic instead of exit status 1, and an
\* input file on which validate_file panics ends it there: the files before
\* it were validated, the ones after it are not, and there is no exit status.
CheckCommandUnlessPanic ==
    /\ checked # <<>> => SchemaAccepted
    /\ (Exited /\ ~SchemaAccepted) => exit = (IF NamePanics THEN Panic ELSE Exit(1))
    /\ \A i \in 1..Len(checked) : checked[i] = Expected(i)
    /\ (Exited /\ SchemaAccepted /\ PanickingInputs = {}) =>
          /\ Len(checked) = Len(input_files)
          /\ exit = Exit(IF \A i \in 1..Len(input_files) : Expected(i).tag = "Ok"
                         THEN 0 ELSE 2)
    /\ (Exited /\ SchemaAccepted /\ PanickingInputs # {}) =>
          /\ exit = Panic
          /\ \A i \in PanickingInputs : Len(checked) < i
          /\ Len(checked) + 1 \in PanickingInputs

\* Reached: a failing file between two valid ones, all three validated, exit 2
\* (with MaxInputs = 2: a failing file before a valid one).
CheckFailingFileDoesNotStop ==
    /\ exit = Exit(2)
    /\ Len(checked) = Len(input_files)
    /\ Len(checked) >= 2
    /\ checked[1].tag = "Err"
    /\ checked[Len(checked)].tag = "Ok"
CheckNoInputsExitZero == exit = Exit(0) /\ input_files = <<>>
CheckFatalExitOne == exit = Exit(1) /\ checked = <<>> /\ input_files # <<>>

\* under FairSpecCheck the process ends
CheckTerminates == <>Exited

=============================================================================
